---------------------------- MODULE Spec2Model ----------------------------
(***************************************************************************)
(* A model of the chess rules engine: the bitboard ChessBoard, the         *)
(* MoveManager (legal move generation, move application, castling rights,  *)
(* en-passant targets, clocks), the Game wrapper and the FEN codec.        *)
(*                                                                         *)
(* A Position is the bit index 8 * rank + file (A1 = 0, H1 = 7, H8 = 63);  *)
(* a Bitboard is the set of the positions whose bit is set.  Option<T> is  *)
(* a sequence of length at most one: <<>> is None and <<x>> is Some(x).    *)
(* A string is the sequence of its characters.                             *)
(***************************************************************************)
EXTENDS Integers, Sequences, FiniteSets, TLC

VARIABLES
    game,      \* the Game: current_player, move_manager, board
    played,    \* the moves Game::make_move has applied, oldest first
    call,      \* the last Game::make_move call: its argument and its result
    off_book,  \* how many calls were not the next move of a test-suite game
    fen_in,    \* the string handed to Game::from_fen_string
    fen_game,  \* what from_fen_string returned for fen_in
    fen_out,   \* what to_fen_string returned for the parsed game
    chess_board,  \* a ChessBoard that is edited piece by piece
    board_call,   \* the last call on chess_board, and how many there were
    bitboard_call \* the last call of a knight_moves of bitboard.rs

vars ==
    <<game, played, call, off_book, fen_in, fen_game, fen_out, chess_board,
      board_call, bitboard_call>>

----------------------------------------------------------------------------
(* Bounds of the model *)

\* the games of the test suite are followed move by move; from each of
\* their positions at most this many further calls of make_move, with any
\* legal move or with an illegal one, are explored
MaxOffBook == 1

----------------------------------------------------------------------------
(* Option<T> *)

None == <<>>
Some(x) == <<x>>
is_some(o) == o # <<>>
unwrap(o) == o[1]

\* A local binding of the program, let x = e, is written
\* the({body : x \in {e}}): e is evaluated once, whatever uses body makes of x
the(S) == CHOOSE x \in S : TRUE

----------------------------------------------------------------------------
(* Color, PieceType, Piece *)

Colors == {"White", "Black"}
PieceTypes == <<"Pawn", "Knight", "Bishop", "Rook", "Queen", "King">>

opponent(color) == IF color = "Black" THEN "White" ELSE "Black"

Piece(color, kind) == [color |-> color, kind |-> kind]

----------------------------------------------------------------------------
(* Position, File, Rank *)

Positions == 0 .. 63
Position(file, rank) == 8 * rank + file
file_of(pos) == pos % 8
rank_of(pos) == pos \div 8

FileA == 0
FileB == 1
FileC == 2
FileD == 3
FileE == 4
FileF == 5
FileG == 6
FileH == 7
RankOne == 0
RankTwo == 1
RankThree == 2
RankFour == 3
RankFive == 4
RankSix == 5
RankSeven == 6
RankEight == 7

A1 == Position(FileA, RankOne)
B1 == Position(FileB, RankOne)
C1 == Position(FileC, RankOne)
D1 == Position(FileD, RankOne)
E1 == Position(FileE, RankOne)
F1 == Position(FileF, RankOne)
G1 == Position(FileG, RankOne)
H1 == Position(FileH, RankOne)
A8 == Position(FileA, RankEight)
B8 == Position(FileB, RankEight)
C8 == Position(FileC, RankEight)
D8 == Position(FileD, RankEight)
E8 == Position(FileE, RankEight)
F8 == Position(FileF, RankEight)
G8 == Position(FileG, RankEight)
H8 == Position(FileH, RankEight)

\* Position::add_offset: None off the board
add_offset(pos, file_step, rank_step) ==
    LET f == file_of(pos) + file_step
        r == rank_of(pos) + rank_step
    IN  IF f \in 0 .. 7 /\ r \in 0 .. 7 THEN Some(Position(f, r)) ELSE None

up(pos) == add_offset(pos, 0, 1)
down(pos) == add_offset(pos, 0, -1)
up_left(pos) == add_offset(pos, -1, 1)
up_right(pos) == add_offset(pos, 1, 1)
down_left(pos) == add_offset(pos, -1, -1)
down_right(pos) == add_offset(pos, 1, -1)

\* the set of the positions an Option<Position> holds
opt_set(o) == IF is_some(o) THEN {unwrap(o)} ELSE {}

abs(n) == IF n < 0 THEN -n ELSE n
manhattan_distance_to(a, b) ==
    abs(file_of(a) - file_of(b)) + abs(rank_of(a) - rank_of(b))

----------------------------------------------------------------------------
(* Bitboard target sets *)

KNIGHT_OFFSETS ==
    {<<2, 1>>, <<2, -1>>, <<1, 2>>, <<-1, 2>>,
     <<-2, 1>>, <<-2, -1>>, <<1, -2>>, <<-1, -2>>}

KING_OFFSETS ==
    {<<0, 1>>, <<1, 1>>, <<1, 0>>, <<1, -1>>,
     <<0, -1>>, <<-1, -1>>, <<-1, 0>>, <<-1, 1>>}

BISHOP_DIRECTIONS == {<<1, 1>>, <<1, -1>>, <<-1, -1>>, <<-1, 1>>}
ROOK_DIRECTIONS == {<<0, 1>>, <<1, 0>>, <<0, -1>>, <<-1, 0>>}

offset_targets(pos, offsets) ==
    UNION {opt_set(add_offset(pos, o[1], o[2])) : o \in offsets}

\* the squares from pos towards dir up to and including the first occupied
\* one, or up to the board edge
RECURSIVE ray_attacks(_, _, _)
ray_attacks(pos, dir, occ) ==
    LET next == add_offset(pos, dir[1], dir[2])
    IN  IF ~is_some(next) THEN {}
        ELSE IF unwrap(next) \in occ THEN {unwrap(next)}
        ELSE {unwrap(next)} \cup ray_attacks(unwrap(next), dir, occ)

bishop_attacks(pos, occ) ==
    UNION {ray_attacks(pos, dir, occ) : dir \in BISHOP_DIRECTIONS}

rook_attacks(pos, occ) ==
    UNION {ray_attacks(pos, dir, occ) : dir \in ROOK_DIRECTIONS}

queen_attacks(pos, occ) == bishop_attacks(pos, occ) \cup rook_attacks(pos, occ)

knight_targets(from, own_occupancy) == offset_targets(from, KNIGHT_OFFSETS) \ own_occupancy

white_king_targets(from, white_occupancy) == offset_targets(from, KING_OFFSETS) \ white_occupancy
black_king_targets(from, black_occupancy) == offset_targets(from, KING_OFFSETS) \ black_occupancy

white_bishop_targets(from, white_occupancy, black_occupancy) ==
    bishop_attacks(from, white_occupancy \cup black_occupancy) \ white_occupancy
black_bishop_targets(from, white_occupancy, black_occupancy) ==
    bishop_attacks(from, white_occupancy \cup black_occupancy) \ black_occupancy

white_rook_targets(from, white_occupancy, black_occupancy) ==
    rook_attacks(from, white_occupancy \cup black_occupancy) \ white_occupancy
black_rook_targets(from, white_occupancy, black_occupancy) ==
    rook_attacks(from, white_occupancy \cup black_occupancy) \ black_occupancy

white_queen_targets(from, white_occupancy, black_occupancy) ==
    queen_attacks(from, white_occupancy \cup black_occupancy) \ white_occupancy
black_queen_targets(from, white_occupancy, black_occupancy) ==
    queen_attacks(from, white_occupancy \cup black_occupancy) \ black_occupancy

\* single push onto an empty square, double push from the second rank over
\* two empty squares, diagonal captures of black pieces
white_pawn_targets(from, white_occupancy, black_occupancy) ==
    LET occ == white_occupancy \cup black_occupancy
        one == opt_set(up(from)) \ occ
        two == IF rank_of(from) = RankTwo /\ one # {}
               THEN {from + 16} \ occ ELSE {}
        caps == (opt_set(up_left(from)) \cup opt_set(up_right(from)))
                    \cap black_occupancy
    IN  one \cup two \cup caps

black_pawn_targets(from, white_occupancy, black_occupancy) ==
    LET occ == white_occupancy \cup black_occupancy
        one == opt_set(down(from)) \ occ
        two == IF rank_of(from) = RankSeven /\ one # {}
               THEN {from - 16} \ occ ELSE {}
        caps == (opt_set(down_left(from)) \cup opt_set(down_right(from)))
                    \cap white_occupancy
    IN  one \cup two \cup caps

----------------------------------------------------------------------------
(* ChessBoard: twelve piece bitboards and nine aggregates *)

BOARD_FIELDS ==
    {"white_kings", "black_kings", "all_kings",
     "white_queens", "black_queens", "all_queens",
     "white_rooks", "black_rooks", "all_rooks",
     "white_knights", "black_knights", "all_knights",
     "white_bishops", "black_bishops", "all_bishops",
     "white_pawns", "black_pawns", "all_pawns",
     "white_pieces", "black_pieces", "all_pieces"}

\* the name of the bitboard get_bitboard(color, kind) selects
bitboard_field(color, kind) ==
    CASE color = "Black" /\ kind = "Pawn" -> "black_pawns"
      [] color = "Black" /\ kind = "Knight" -> "black_knights"
      [] color = "Black" /\ kind = "Bishop" -> "black_bishops"
      [] color = "Black" /\ kind = "Rook" -> "black_rooks"
      [] color = "Black" /\ kind = "Queen" -> "black_queens"
      [] color = "Black" /\ kind = "King" -> "black_kings"
      [] color = "White" /\ kind = "Pawn" -> "white_pawns"
      [] color = "White" /\ kind = "Knight" -> "white_knights"
      [] color = "White" /\ kind = "Bishop" -> "white_bishops"
      [] color = "White" /\ kind = "Rook" -> "white_rooks"
      [] color = "White" /\ kind = "Queen" -> "white_queens"
      [] color = "White" /\ kind = "King" -> "white_kings"

get_bitboard(board, color, kind) == board[bitboard_field(color, kind)]

all_field(kind) ==
    CASE kind = "Pawn" -> "all_pawns"
      [] kind = "Knight" -> "all_knights"
      [] kind = "Bishop" -> "all_bishops"
      [] kind = "Rook" -> "all_rooks"
      [] kind = "Queen" -> "all_queens"
      [] kind = "King" -> "all_kings"

pieces_field(color) == IF color = "Black" THEN "black_pieces" ELSE "white_pieces"

get_occupancy_for_color(board, color) == board[pieces_field(color)]
white_occupancy(board) == board.white_pieces
black_occupancy(board) == board.black_pieces

construct(white_kings, black_kings, white_queens, black_queens, white_rooks, black_rooks, white_knights, black_knights, white_bishops, black_bishops, white_pawns, black_pawns) ==
    LET white_pieces == white_kings \cup white_queens \cup white_rooks
                        \cup white_knights \cup white_bishops \cup white_pawns
        black_pieces == black_kings \cup black_queens \cup black_rooks
                        \cup black_knights \cup black_bishops \cup black_pawns
    IN  [white_kings |-> white_kings, black_kings |-> black_kings,
         all_kings |-> white_kings \cup black_kings,
         white_queens |-> white_queens, black_queens |-> black_queens,
         all_queens |-> white_queens \cup black_queens,
         white_rooks |-> white_rooks, black_rooks |-> black_rooks,
         all_rooks |-> white_rooks \cup black_rooks,
         white_knights |-> white_knights, black_knights |-> black_knights,
         all_knights |-> white_knights \cup black_knights,
         white_bishops |-> white_bishops, black_bishops |-> black_bishops,
         all_bishops |-> white_bishops \cup black_bishops,
         white_pawns |-> white_pawns, black_pawns |-> black_pawns,
         all_pawns |-> white_pawns \cup black_pawns,
         white_pieces |-> white_pieces, black_pieces |-> black_pieces,
         all_pieces |-> white_pieces \cup black_pieces]

\* ChessBoard::new(): the initial placement
new_board ==
    construct({E1}, {E8}, {D1}, {D8}, {A1, H1}, {A8, H8}, {B1, G1}, {B8, G8},
              {C1, F1}, {C8, F8},
              {Position(f, RankTwo) : f \in 0 .. 7},
              {Position(f, RankSeven) : f \in 0 .. 7})

\* ChessBoard::clear(): every bitboard empty
clear(board) == [f \in BOARD_FIELDS |-> {}]

get_color_of_pos(board, pos) ==
    IF pos \in board.white_pieces THEN Some("White")
    ELSE IF pos \in board.black_pieces THEN Some("Black")
    ELSE None

get_kind_of_pos(board, pos) ==
    IF pos \in board.all_kings THEN Some("King")
    ELSE IF pos \in board.all_queens THEN Some("Queen")
    ELSE IF pos \in board.all_rooks THEN Some("Rook")
    ELSE IF pos \in board.all_knights THEN Some("Knight")
    ELSE IF pos \in board.all_bishops THEN Some("Bishop")
    ELSE IF pos \in board.all_pawns THEN Some("Pawn")
    ELSE None

get_piece(board, pos) ==
    LET color == get_color_of_pos(board, pos)
        kind == get_kind_of_pos(board, pos)
    IN  IF is_some(color) /\ is_some(kind)
        THEN Some(Piece(unwrap(color), unwrap(kind)))
        ELSE None

has_piece_at(board, pos) == is_some(get_color_of_pos(board, pos))

has_piece_of_color_at(board, color, pos) ==
    pos \in board[pieces_field(color)]

\* a mutation of remove_known_piece: the bitboard of the kind of both
\* colours keeps the square
remove_known_piece_keeps_kind(board, pos, color, kind) ==
    [board EXCEPT !.all_pieces = @ \ {pos},
                  ![pieces_field(color)] = @ \ {pos},
                  ![bitboard_field(color, kind)] = @ \ {pos}]

remove_known_piece(board, pos, color, kind) ==
    [board EXCEPT !.all_pieces = @ \ {pos},
                  ![pieces_field(color)] = @ \ {pos},
                  ![bitboard_field(color, kind)] = @ \ {pos},
                  ![all_field(kind)] = @ \ {pos}]

\* take_piece returns the board it leaves, the piece it took, and whether it
\* panicked (a colour without a kind or a kind without a colour)
take_piece(board, pos) ==
    LET color == get_color_of_pos(board, pos)
        kind == get_kind_of_pos(board, pos)
    IN  IF ~is_some(color) /\ ~is_some(kind)
        THEN [board |-> board, taken |-> None, panic |-> FALSE]
        ELSE IF is_some(color) /\ is_some(kind)
        THEN [board |-> remove_known_piece(board, pos, unwrap(color), unwrap(kind)),
              taken |-> Some(Piece(unwrap(color), unwrap(kind))),
              panic |-> FALSE]
        ELSE [board |-> board, taken |-> None, panic |-> TRUE]

set_piece(board, pos, piece) ==
    the({[board |-> [t.board EXCEPT
                        !.all_pieces = @ \cup {pos},
                        ![all_field(piece.kind)] = @ \cup {pos},
                        ![pieces_field(piece.color)] = @ \cup {pos},
                        ![bitboard_field(piece.color, piece.kind)] = @ \cup {pos}],
          taken |-> t.taken,
          panic |-> t.panic] : t \in {take_piece(board, pos)}})

----------------------------------------------------------------------------
(* ChessMove *)

Regular(from, to) == [type |-> "Regular", from |-> from, to |-> to]

EnPassant(from, to, taken_original_index, taken_index) ==
    [type |-> "EnPassant", from |-> from, to |-> to,
     taken_original_index |-> taken_original_index, taken_index |-> taken_index]

Promotion(from, to, piece) ==
    [type |-> "Promotion", from |-> from, to |-> to, piece |-> piece]

Castle(rook_from, rook_to, king_from, king_to) ==
    [type |-> "Castle", rook_from |-> rook_from, rook_to |-> rook_to,
     king_from |-> king_from, king_to |-> king_to]

\* ChessMove::from and ChessMove::to: the king's squares for a Castle
move_from(chess_move) ==
    IF chess_move.type = "Castle" THEN chess_move.king_from ELSE chess_move.from

move_to(chess_move) ==
    IF chess_move.type = "Castle" THEN chess_move.king_to ELSE chess_move.to

is_en_passant(chess_move) == chess_move.type = "EnPassant"
is_promotion(chess_move) == chess_move.type = "Promotion"
is_castle(chess_move) == chess_move.type = "Castle"

\* a mutation of promotion_moves: the pieces in the order of the enum
promotion_moves_enum_order(from, to) ==
    [i \in 1 .. 4 |->
        Promotion(from, to, <<"Knight", "Bishop", "Rook", "Queen">>[i])]

\* the Vec promotion_moves returns, in its order
promotion_moves(from, to) ==
    [i \in 1 .. 4 |->
        Promotion(from, to, <<"Bishop", "Knight", "Rook", "Queen">>[i])]

seq_set(seq) == {seq[i] : i \in DOMAIN seq}

\* a mutation of create_piece: the pawn is promoted to a king
create_piece_king(promotion, color) == Piece(color, "King")

\* PromotionPiece::create_piece
create_piece(promotion, color) == Piece(color, promotion)

----------------------------------------------------------------------------
(* CastlingRights *)

CastlingRights(wk, wq, bk, bq) ==
    [white_kingside |-> wk, white_queenside |-> wq,
     black_kingside |-> bk, black_queenside |-> bq]

default_castling_rights == CastlingRights(TRUE, TRUE, TRUE, TRUE)

----------------------------------------------------------------------------
(* MoveManager *)

new_move_manager(board_history, legal_moves, white_en_passant_target, black_en_passant_target, castling_rights, half_moves, full_moves) ==
    [board_history |-> board_history,
     legal_moves |-> legal_moves,
     white_en_passant_target |-> white_en_passant_target,
     black_en_passant_target |-> black_en_passant_target,
     castling_rights |-> castling_rights,
     half_moves |-> half_moves,
     full_moves |-> full_moves]

default_move_manager ==
    new_move_manager(0, {}, None, None, default_castling_rights, 0, 1)

\* a mutation of is_legal: every move is taken for a legal one
is_legal_unchecked(mm, chess_move) == TRUE

is_legal(mm, chess_move) == chess_move \in mm.legal_moves

\* dry_run_move returns the board it leaves, the piece it took and whether
\* an unwrap() of a missing piece panicked
dry_run_move(board, player, chess_move) ==
    CASE chess_move.type = "Regular" ->
            the({IF ~is_some(t.taken)
                 THEN [board |-> t.board, taken_piece |-> None, panic |-> TRUE]
                 ELSE the({[board |-> s.board, taken_piece |-> s.taken,
                            panic |-> t.panic \/ s.panic] :
                        s \in {set_piece(t.board, chess_move.to,
                                         unwrap(t.taken))}}) :
                    t \in {take_piece(board, chess_move.from)}})
      [] chess_move.type = "EnPassant" ->
            the({IF ~is_some(t.taken)
                 THEN [board |-> t.board, taken_piece |-> None, panic |-> TRUE]
                 ELSE the({the({[board |-> u.board, taken_piece |-> u.taken,
                                 panic |-> t.panic \/ s.panic \/ u.panic
                                              \/ ~is_some(u.taken)] :
                                u \in {take_piece(s.board,
                                                  chess_move.taken_index)}}) :
                        s \in {set_piece(t.board, chess_move.to,
                                         unwrap(t.taken))}}) :
                    t \in {take_piece(board, chess_move.from)}})
      [] chess_move.type = "Promotion" ->
            the({IF ~is_some(t.taken)
                 THEN [board |-> t.board, taken_piece |-> None, panic |-> TRUE]
                 ELSE the({[board |-> s.board, taken_piece |-> s.taken,
                            panic |-> t.panic \/ s.panic] :
                        s \in {set_piece(t.board, chess_move.to,
                                         create_piece(chess_move.piece,
                                                      player))}}) :
                    t \in {take_piece(board, chess_move.from)}})
      [] chess_move.type = "Castle" ->
            the({IF ~is_some(r.taken)
                 THEN [board |-> r.board, taken_piece |-> None, panic |-> TRUE]
                 ELSE the({the({IF ~is_some(k.taken)
                                THEN [board |-> k.board, taken_piece |-> None,
                                      panic |-> TRUE]
                                ELSE the({[board |-> ks.board,
                                           taken_piece |-> None,
                                           panic |-> r.panic \/ rs.panic
                                                       \/ k.panic \/ ks.panic] :
                                        ks \in {set_piece(k.board,
                                                          chess_move.king_to,
                                                          unwrap(k.taken))}}) :
                                k \in {take_piece(rs.board,
                                                  chess_move.king_from)}}) :
                        rs \in {set_piece(r.board, chess_move.rook_to,
                                          unwrap(r.taken))}}) :
                    r \in {take_piece(board, chess_move.rook_from)}})

\* a mutation of update_castling_rights: each white right is assigned whether
\* the move left its square alone, each black right likewise
update_castling_rights_assigned(castling_rights, from) ==
    [white_kingside |-> from # E1 /\ from # H1,
     white_queenside |-> from # E1 /\ from # A1,
     black_kingside |-> from # E8 /\ from # H8,
     black_queenside |-> from # E8 /\ from # A8]

update_castling_rights(castling_rights, from) ==
    LET r1 == IF from = E1
              THEN [castling_rights EXCEPT !.white_kingside = FALSE,
                                           !.white_queenside = FALSE]
              ELSE castling_rights
        r2 == IF from = A1 THEN [r1 EXCEPT !.white_queenside = FALSE] ELSE r1
        r3 == IF from = A8 THEN [r2 EXCEPT !.white_kingside = FALSE] ELSE r2
        r4 == IF from = E8
              THEN [r3 EXCEPT !.black_kingside = FALSE,
                              !.black_queenside = FALSE]
              ELSE r3
        r5 == IF from = A8 THEN [r4 EXCEPT !.black_queenside = FALSE] ELSE r4
        r6 == IF from = H8 THEN [r5 EXCEPT !.black_kingside = FALSE] ELSE r5
    IN  r6

\* a mutation of is_double_push: every push along the file counts
is_any_push(from, to) == file_of(from) = file_of(to)

\* make_move's test of a pawn move for a double push
is_double_push(from, to) ==
    file_of(from) = file_of(to) /\ manhattan_distance_to(from, to) = 2

\* a mutation of half_moves_after: the clock is never reset
half_moves_never_reset(half_moves, reset) == half_moves + 1

\* make_move's update of the halfmove clock
half_moves_after(half_moves, reset) == IF reset THEN 0 ELSE half_moves + 1

\* a mutation of full_moves_after: the number grows with every move
full_moves_every_ply(full_moves, player) == full_moves + 1

\* make_move's update of the fullmove number
full_moves_after(full_moves, player) ==
    IF player = "Black" THEN full_moves + 1 ELSE full_moves

\* a mutation of mm_make_move: the mover's en passant target is not cleared
mm_make_move_keeps_targets(mm, board, player, chess_move) ==
    LET from_piece == IF chess_move.type = "Regular"
                      THEN get_piece(board, chess_move.from) ELSE None
        moved_pawn == is_some(from_piece) /\ unwrap(from_piece).kind = "Pawn"
        double_push == moved_pawn
                       /\ is_double_push(chess_move.from, chess_move.to)
        color == unwrap(from_piece).color
        white_target_1 ==
            IF double_push /\ color = "Black"
            THEN Some(Position(file_of(chess_move.from),
                               rank_of(chess_move.from) - 1))
            ELSE mm.white_en_passant_target
        black_target_1 ==
            IF double_push /\ color = "White"
            THEN Some(Position(file_of(chess_move.from),
                               rank_of(chess_move.from) + 1))
            ELSE mm.black_en_passant_target
        rights == IF chess_move.type = "Regular"
                  THEN update_castling_rights(mm.castling_rights, chess_move.from)
                  ELSE mm.castling_rights
    IN  the({[mm |-> [mm EXCEPT
                        !.castling_rights = rights,
                        !.half_moves =
                            half_moves_after(@, moved_pawn
                                                  \/ is_en_passant(chess_move)
                                                  \/ is_promotion(chess_move)
                                                  \/ is_some(dry.taken_piece)),
                        !.full_moves = full_moves_after(@, player),
                        !.white_en_passant_target = white_target_1,
                        !.black_en_passant_target = black_target_1,
                        !.board_history = @ + 1],
              board |-> dry.board,
              taken_piece |-> dry.taken_piece,
              panic |-> dry.panic] :
                dry \in {dry_run_move(board, player, chess_move)}})

\* MoveManager::make_move returns the manager and the board it leaves, the
\* piece taken and whether it panicked
mm_make_move(mm, board, player, chess_move) ==
    LET from_piece == IF chess_move.type = "Regular"
                      THEN get_piece(board, chess_move.from) ELSE None
        moved_pawn == is_some(from_piece) /\ unwrap(from_piece).kind = "Pawn"
        double_push == moved_pawn
                       /\ is_double_push(chess_move.from, chess_move.to)
        color == unwrap(from_piece).color
        white_target_1 ==
            IF double_push /\ color = "Black"
            THEN Some(Position(file_of(chess_move.from),
                               rank_of(chess_move.from) - 1))
            ELSE mm.white_en_passant_target
        black_target_1 ==
            IF double_push /\ color = "White"
            THEN Some(Position(file_of(chess_move.from),
                               rank_of(chess_move.from) + 1))
            ELSE mm.black_en_passant_target
        rights == IF chess_move.type = "Regular"
                  THEN update_castling_rights(mm.castling_rights, chess_move.from)
                  ELSE mm.castling_rights
    IN  the({[mm |-> [mm EXCEPT
                        !.castling_rights = rights,
                        !.half_moves =
                            half_moves_after(@, moved_pawn
                                                  \/ is_en_passant(chess_move)
                                                  \/ is_promotion(chess_move)
                                                  \/ is_some(dry.taken_piece)),
                        !.full_moves = full_moves_after(@, player),
                        !.white_en_passant_target =
                            IF player = "White" THEN None ELSE white_target_1,
                        !.black_en_passant_target =
                            IF player = "Black" THEN None ELSE black_target_1,
                        !.board_history = @ + 1],
              board |-> dry.board,
              taken_piece |-> dry.taken_piece,
              panic |-> dry.panic] :
                dry \in {dry_run_move(board, player, chess_move)}})

\* a mutation of get_attackers: the pawn arms look on the wrong side of the
\* target, as if the pawns of the attacker moved the other way
get_attackers_pawns_swapped(board, target, attacker_color) ==
    IF attacker_color = "Black"
    THEN   ((opt_set(down_left(target)) \cup opt_set(down_right(target)))
                \cap get_bitboard(board, "Black", "Pawn"))
      \cup (knight_targets(target, {}) \cap get_bitboard(board, "Black", "Knight"))
      \cup (white_bishop_targets(target, white_occupancy(board),
                                 black_occupancy(board))
                \cap get_bitboard(board, "Black", "Bishop"))
      \cup (white_rook_targets(target, white_occupancy(board),
                               black_occupancy(board))
                \cap get_bitboard(board, "Black", "Rook"))
      \cup (white_queen_targets(target, white_occupancy(board),
                                black_occupancy(board))
                \cap get_bitboard(board, "Black", "Queen"))
      \cup (white_king_targets(target, white_occupancy(board))
                \cap get_bitboard(board, "Black", "King"))
    ELSE   ((opt_set(up_left(target)) \cup opt_set(up_right(target)))
                \cap get_bitboard(board, "White", "Pawn"))
      \cup (knight_targets(target, {}) \cap get_bitboard(board, "White", "Knight"))
      \cup (black_bishop_targets(target, white_occupancy(board),
                                 black_occupancy(board))
                \cap get_bitboard(board, "White", "Bishop"))
      \cup (black_rook_targets(target, white_occupancy(board),
                               black_occupancy(board))
                \cap get_bitboard(board, "White", "Rook"))
      \cup (black_queen_targets(target, white_occupancy(board),
                                black_occupancy(board))
                \cap get_bitboard(board, "White", "Queen"))
      \cup (black_king_targets(target, black_occupancy(board))
                \cap get_bitboard(board, "White", "King"))

\* the attackers of attacker_color on target
get_attackers(board, target, attacker_color) ==
    IF attacker_color = "Black"
    THEN   ((opt_set(up_left(target)) \cup opt_set(up_right(target)))
                \cap get_bitboard(board, "Black", "Pawn"))
      \cup (knight_targets(target, {}) \cap get_bitboard(board, "Black", "Knight"))
      \cup (white_bishop_targets(target, white_occupancy(board),
                                 black_occupancy(board))
                \cap get_bitboard(board, "Black", "Bishop"))
      \cup (white_rook_targets(target, white_occupancy(board),
                               black_occupancy(board))
                \cap get_bitboard(board, "Black", "Rook"))
      \cup (white_queen_targets(target, white_occupancy(board),
                                black_occupancy(board))
                \cap get_bitboard(board, "Black", "Queen"))
      \cup (white_king_targets(target, white_occupancy(board))
                \cap get_bitboard(board, "Black", "King"))
    ELSE   ((opt_set(down_left(target)) \cup opt_set(down_right(target)))
                \cap get_bitboard(board, "White", "Pawn"))
      \cup (knight_targets(target, {}) \cap get_bitboard(board, "White", "Knight"))
      \cup (black_bishop_targets(target, white_occupancy(board),
                                 black_occupancy(board))
                \cap get_bitboard(board, "White", "Bishop"))
      \cup (black_rook_targets(target, white_occupancy(board),
                               black_occupancy(board))
                \cap get_bitboard(board, "White", "Rook"))
      \cup (black_queen_targets(target, white_occupancy(board),
                                black_occupancy(board))
                \cap get_bitboard(board, "White", "Queen"))
      \cup (black_king_targets(target, black_occupancy(board))
                \cap get_bitboard(board, "White", "King"))

is_under_attack(board, target, attacker_color) ==
    get_attackers(board, target, attacker_color) # {}

\* Bitboard::first_position: the lowest set bit
first_position(bb) ==
    IF bb = {} THEN None ELSE Some(CHOOSE p \in bb : \A q \in bb : p <= q)

\* is_in_check unwraps the king's position: it panics on a board without
\* a king of the player's colour
is_in_check_panics(board, player) ==
    ~is_some(first_position(get_bitboard(board, player, "King")))

\* a mutation of is_in_check: no king is ever in check
is_in_check_never(board, player) == FALSE

is_in_check(board, player) ==
    LET king == first_position(get_bitboard(board, player, "King"))
    IN  is_some(king)
        /\ get_attackers(board, unwrap(king), opponent(player)) # {}

\* a mutation of evaluate_legal_white_pawn_moves_from: the en passant
\* capture is never offered
evaluate_legal_white_pawn_moves_no_en_passant(mm, board, from) ==
    IF rank_of(from) = RankSeven
    THEN LET ahead == from + 8
         IN  (IF ~has_piece_at(board, ahead)
              THEN seq_set(promotion_moves(from, ahead)) ELSE {})
             \cup UNION {seq_set(promotion_moves(from, to)) :
                    to \in {t \in opt_set(up_left(from)) \cup opt_set(up_right(from)) :
                                has_piece_of_color_at(board, "Black", t)}}
    ELSE {Regular(from, to) :
            to \in white_pawn_targets(from, white_occupancy(board),
                                      black_occupancy(board))}

evaluate_legal_white_pawn_moves_from(mm, board, from) ==
    IF rank_of(from) = RankSeven
    THEN LET ahead == from + 8
         IN  (IF ~has_piece_at(board, ahead)
              THEN seq_set(promotion_moves(from, ahead)) ELSE {})
             \cup UNION {seq_set(promotion_moves(from, to)) :
                    to \in {t \in opt_set(up_left(from)) \cup opt_set(up_right(from)) :
                                has_piece_of_color_at(board, "Black", t)}}
    ELSE LET targets == white_pawn_targets(from, white_occupancy(board),
                                           black_occupancy(board))
             t == mm.white_en_passant_target
         IN  {Regular(from, to) : to \in targets}
             \cup (IF is_some(t) /\ rank_of(from) = RankFive
                      /\ (up_left(from) = t \/ up_right(from) = t)
                   THEN {EnPassant(from, unwrap(t),
                                   Position(file_of(unwrap(t)), RankSeven),
                                   Position(file_of(unwrap(t)), RankFive))}
                   ELSE {})

evaluate_legal_black_pawn_moves_from(mm, board, from) ==
    IF rank_of(from) = RankTwo
    THEN LET ahead == from - 8
         IN  (IF ~has_piece_at(board, ahead)
              THEN seq_set(promotion_moves(from, ahead)) ELSE {})
             \cup UNION {seq_set(promotion_moves(from, to)) :
                    to \in {t \in opt_set(down_left(from)) \cup opt_set(down_right(from)) :
                                has_piece_of_color_at(board, "White", t)}}
    ELSE LET targets == black_pawn_targets(from, white_occupancy(board),
                                           black_occupancy(board))
             t == mm.black_en_passant_target
         IN  {Regular(from, to) : to \in targets}
             \cup (IF is_some(t) /\ rank_of(from) = RankFour
                      /\ (down_left(from) = t \/ down_right(from) = t)
                   THEN {EnPassant(from, unwrap(t),
                                   Position(file_of(unwrap(t)), RankTwo),
                                   Position(file_of(unwrap(t)), RankFour))}
                   ELSE {})

evaluate_legal_pawn_moves_from(mm, board, from, player) ==
    IF rank_of(from) = RankOne \/ rank_of(from) = RankEight
    THEN {}
    ELSE IF player = "Black"
    THEN evaluate_legal_black_pawn_moves_from(mm, board, from)
    ELSE evaluate_legal_white_pawn_moves_from(mm, board, from)

evaluate_white_castle(mm, board) ==
    (IF mm.castling_rights.white_kingside
        /\ ~has_piece_at(board, F1)
        /\ ~has_piece_at(board, G1)
        /\ ~is_under_attack(board, F1, "Black")
        /\ ~is_under_attack(board, G1, "Black")
     THEN {Castle(H1, F1, E1, G1)} ELSE {})
    \cup
    (IF mm.castling_rights.white_queenside
        /\ ~has_piece_at(board, D1)
        /\ ~has_piece_at(board, C1)
        /\ ~has_piece_at(board, B1)
        /\ ~is_under_attack(board, D1, "Black")
        /\ ~is_under_attack(board, C1, "Black")
        /\ ~is_under_attack(board, B1, "Black")
     THEN {Castle(A1, D1, E1, C1)} ELSE {})

evaluate_black_castle(mm, board) ==
    (IF mm.castling_rights.black_kingside
        /\ ~has_piece_at(board, F8)
        /\ ~has_piece_at(board, G8)
        /\ ~is_under_attack(board, F8, "White")
        /\ ~is_under_attack(board, G8, "White")
     THEN {Castle(H8, F8, E8, G8)} ELSE {})
    \cup
    (IF mm.castling_rights.black_queenside
        /\ ~has_piece_at(board, D8)
        /\ ~has_piece_at(board, C8)
        /\ ~has_piece_at(board, B8)
        /\ ~is_under_attack(board, D8, "White")
        /\ ~is_under_attack(board, C8, "White")
        /\ ~is_under_attack(board, B8, "White")
     THEN {Castle(A8, D8, E8, C8)} ELSE {})

evaluate_legal_king_moves_from(mm, board, from, player) ==
    LET targets == IF player = "Black"
                   THEN black_king_targets(from, black_occupancy(board))
                   ELSE white_king_targets(from, white_occupancy(board))
    IN  {Regular(from, to) : to \in targets}
        \cup (IF player = "Black" /\ from = E8 THEN evaluate_black_castle(mm, board)
              ELSE IF player = "White" /\ from = E1
              THEN evaluate_white_castle(mm, board)
              ELSE {})

\* a mutation of evaluate_legal_knight_moves_from: squares of the player's
\* own pieces are targets too
evaluate_legal_knight_moves_onto_own(board, from, player) ==
    {Regular(from, to) : to \in offset_targets(from, KNIGHT_OFFSETS)}

evaluate_legal_knight_moves_from(board, from, player) ==
    LET targets == knight_targets(from, get_occupancy_for_color(board, player))
                        \ get_occupancy_for_color(board, player)
    IN  {Regular(from, to) : to \in targets}

evaluate_legal_bishop_moves_from(board, from, player) ==
    LET targets ==
            IF player = "Black"
            THEN black_bishop_targets(from, white_occupancy(board),
                                      black_occupancy(board))
            ELSE white_bishop_targets(from, white_occupancy(board),
                                      black_occupancy(board))
    IN  {Regular(from, to) : to \in targets}

evaluate_legal_rook_moves_from(board, from, player) ==
    LET targets ==
            IF player = "Black"
            THEN black_rook_targets(from, white_occupancy(board),
                                    black_occupancy(board))
            ELSE white_rook_targets(from, white_occupancy(board),
                                    black_occupancy(board))
    IN  {Regular(from, to) : to \in targets}

evaluate_legal_queen_moves_from(board, from, player) ==
    LET targets ==
            IF player = "Black"
            THEN black_queen_targets(from, white_occupancy(board),
                                     black_occupancy(board))
            ELSE white_queen_targets(from, white_occupancy(board),
                                     black_occupancy(board))
    IN  {Regular(from, to) : to \in targets}

evaluate_legal_moves_from(mm, board, from, player) ==
    LET piece == get_piece(board, from)
    IN  IF is_some(piece) /\ unwrap(piece).color = player
        THEN CASE unwrap(piece).kind = "Pawn" ->
                    evaluate_legal_pawn_moves_from(mm, board, from, player)
               [] unwrap(piece).kind = "Knight" ->
                    evaluate_legal_knight_moves_from(board, from, player)
               [] unwrap(piece).kind = "Bishop" ->
                    evaluate_legal_bishop_moves_from(board, from, player)
               [] unwrap(piece).kind = "Rook" ->
                    evaluate_legal_rook_moves_from(board, from, player)
               [] unwrap(piece).kind = "Queen" ->
                    evaluate_legal_queen_moves_from(board, from, player)
               [] unwrap(piece).kind = "King" ->
                    evaluate_legal_king_moves_from(mm, board, from, player)
        ELSE {}

\* the pseudo-legal candidates of every piece of the player
candidate_moves(mm, board, player) ==
    UNION {evaluate_legal_moves_from(mm, board, pos, player) :
                pos \in get_occupancy_for_color(board, player)}

\* a mutation of evaluate_legal_moves: the candidates are kept whether or
\* not their dry run leaves the player's king attacked
evaluate_legal_moves_unfiltered(mm, board, player) ==
    [mm |-> [mm EXCEPT !.legal_moves = candidate_moves(mm, board, player)],
     panic |-> FALSE]

\* evaluate_legal_moves keeps the candidates whose dry run leaves the
\* player's king unattacked; it panics when a dry run or the king lookup does
evaluate_legal_moves(mm, board, player) ==
    the({[mm |-> [mm EXCEPT !.legal_moves =
                    {run.chess_move :
                        run \in {r \in runs : ~is_in_check(r.dry.board, player)}}],
          panic |-> \E run \in runs :
                        \/ run.dry.panic
                        \/ is_in_check_panics(run.dry.board, player)] :
            runs \in {{[chess_move |-> chess_move,
                        dry |-> dry_run_move(board, player, chess_move)] :
                            chess_move \in candidate_moves(mm, board, player)}}})

----------------------------------------------------------------------------
(* Game *)

new_game(current_player, move_manager, board) ==
    [current_player |-> current_player,
     move_manager |-> move_manager,
     board |-> board]

\* Game::default(): the initial position with White to move
default_game ==
    new_game("White",
             evaluate_legal_moves(default_move_manager, new_board, "White").mm,
             new_board)

get_moves(g) == g.move_manager.legal_moves

get_moves_from(g, from) == {chess_move \in get_moves(g) : move_from(chess_move) = from}

\* a mutation of is_over: no game is ever over
is_over_never(g) == FALSE

is_over(g) == get_moves(g) = {}

Winner(color) == [type |-> "Winner", color |-> color]
Draw == [type |-> "Draw"]

\* a mutation of game_result: the side to move is named the winner
game_result_of_the_mover(g) ==
    IF is_over(g)
    THEN IF is_in_check(g.board, g.current_player)
         THEN Some(Winner(g.current_player))
         ELSE Some(Draw)
    ELSE None

\* a mutation of game_result: a side without moves has lost, in check or not
game_result_no_draw(g) ==
    IF is_over(g)
    THEN Some(Winner(opponent(g.current_player)))
    ELSE None

game_result(g) ==
    IF is_over(g)
    THEN IF is_in_check(g.board, g.current_player)
         THEN Some(Winner(opponent(g.current_player)))
         ELSE Some(Draw)
    ELSE None

\* Game::make_move returns the game it leaves and Ok, an Err or a panic
game_make_move(g, chess_move) ==
    IF is_over(g)
    THEN [game |-> g, result |-> "Err: game is over"]
    ELSE IF ~is_legal(g.move_manager, chess_move)
    THEN [game |-> g, result |-> "Err: illegal move"]
    ELSE the({the({[game |-> new_game(opponent(g.current_player),
                                      evaluated.mm, made.board),
                    result |-> IF made.panic \/ evaluated.panic
                               THEN "Panic" ELSE "Ok"] :
                evaluated \in {evaluate_legal_moves(
                                    made.mm, made.board,
                                    opponent(g.current_player))}}) :
            made \in {mm_make_move(g.move_manager, g.board, g.current_player,
                                   chess_move)}})

----------------------------------------------------------------------------
(* The games of the test suite *)

FILE_CHARS == <<"a", "b", "c", "d", "e", "f", "g", "h">>

\* the square constants of the program, by file letter and rank number
sq(file_char, rank_number) ==
    Position((CHOOSE i \in 1 .. 8 : FILE_CHARS[i] = file_char) - 1,
             rank_number - 1)



setup_game_1 ==
    <<Regular(sq("e", 2), sq("e", 4)), Regular(sq("h", 7), sq("h", 6)),
      Regular(sq("e", 4), sq("e", 5)), Regular(sq("d", 7), sq("d", 5))>>

setup_game_2 ==
    <<Regular(sq("e", 2), sq("e", 4)), Regular(sq("e", 7), sq("e", 5)),
      Regular(sq("d", 2), sq("d", 4)), Regular(sq("f", 8), sq("b", 4))>>

setup_promotion_game ==
    <<Regular(sq("b", 2), sq("b", 4)), Regular(sq("a", 7), sq("a", 5)),
      Regular(sq("b", 4), sq("a", 5)), Regular(sq("b", 7), sq("b", 6)),
      Regular(sq("a", 5), sq("a", 6)), Regular(sq("b", 6), sq("b", 5)),
      Regular(sq("a", 6), sq("a", 7)), Regular(sq("b", 5), sq("b", 4))>>

setup_castle_game ==
    <<Regular(sq("e", 2), sq("e", 3)), Regular(sq("e", 7), sq("e", 5)),
      Regular(sq("f", 1), sq("e", 2)), Regular(sq("d", 8), sq("g", 5)),
      Regular(sq("g", 1), sq("f", 3)), Regular(sq("a", 7), sq("a", 6))>>

make_move_test ==
    <<Regular(sq("e", 2), sq("e", 4)), Regular(sq("d", 7), sq("d", 5))>>

en_passant_test ==
    setup_game_1 \o <<EnPassant(sq("e", 5), sq("d", 6), sq("d", 7), sq("d", 5))>>

checked_test ==
    setup_game_2 \o <<Regular(sq("c", 2), sq("c", 3)),
                      Regular(sq("f", 7), sq("f", 6))>>

promotion_test ==
    setup_promotion_game \o <<Promotion(sq("a", 7), sq("b", 8), "Queen")>>

castle_test_1 == setup_castle_game \o <<Castle(H1, F1, E1, G1)>>

castle_test_2 ==
    setup_castle_game \o <<Regular(sq("d", 2), sq("d", 3)),
                           Regular(sq("g", 5), sq("g", 2))>>

fools_mate ==
    <<Regular(sq("f", 2), sq("f", 3)), Regular(sq("e", 7), sq("e", 5)),
      Regular(sq("g", 2), sq("g", 4)), Regular(sq("d", 8), sq("h", 4))>>

stalemate_test ==
    <<Regular(sq("e", 2), sq("e", 3)), Regular(sq("a", 7), sq("a", 5)),
      Regular(sq("d", 1), sq("h", 5)), Regular(sq("a", 8), sq("a", 6)),
      Regular(sq("h", 5), sq("a", 5)), Regular(sq("h", 7), sq("h", 5)),
      Regular(sq("h", 2), sq("h", 4)), Regular(sq("a", 6), sq("h", 6)),
      Regular(sq("a", 5), sq("c", 7)), Regular(sq("f", 7), sq("f", 6)),
      Regular(sq("c", 7), sq("d", 7)), Regular(sq("e", 8), sq("f", 7)),
      Regular(sq("d", 7), sq("b", 7)), Regular(sq("d", 8), sq("d", 3)),
      Regular(sq("b", 7), sq("b", 8)), Regular(sq("d", 3), sq("h", 7)),
      Regular(sq("b", 8), sq("c", 8)), Regular(sq("f", 7), sq("g", 6)),
      Regular(sq("c", 8), sq("e", 6))>>

to_fen_string_test ==
    <<Regular(sq("e", 2), sq("e", 4)), Regular(sq("b", 8), sq("c", 6)),
      Regular(E1, sq("e", 2)), Regular(sq("d", 7), sq("d", 5)),
      Regular(sq("e", 4), sq("d", 5)), Regular(A8, B8)>>

BOOK ==
    {make_move_test, en_passant_test, checked_test, promotion_test,
     castle_test_1, castle_test_2, fools_mate, stalemate_test,
     to_fen_string_test}

\* Further games from the initial position, to positions of the castling
\* rules. In the first the king's rook leaves H1 by H3 and White's
\* kingside empties; in the second a knight checks the king on E1 with F1
\* and G1 empty; in the third a knight on D2 attacks B1 with B1, C1 and D1
\* empty; the fourth is given with its own definition.
rook_lift_game ==
    <<Regular(sq("h", 2), sq("h", 4)), Regular(sq("a", 7), sq("a", 6)),
      Regular(H1, sq("h", 3)), Regular(sq("a", 6), sq("a", 5)),
      Regular(sq("e", 2), sq("e", 3)), Regular(sq("b", 7), sq("b", 6)),
      Regular(F1, sq("e", 2)), Regular(sq("c", 7), sq("c", 6)),
      Regular(G1, sq("f", 3)), Regular(sq("d", 7), sq("d", 6))>>

knight_check_game ==
    <<Regular(G1, sq("f", 3)), Regular(B8, sq("c", 6)),
      Regular(sq("g", 2), sq("g", 3)), Regular(sq("c", 6), sq("b", 4)),
      Regular(F1, sq("g", 2)), Regular(sq("b", 4), sq("d", 3))>>

knight_on_d2_game ==
    <<Regular(sq("d", 2), sq("d", 4)), Regular(G8, sq("f", 6)),
      Regular(B1, sq("c", 3)), Regular(sq("f", 6), sq("e", 4)),
      Regular(C1, sq("f", 4)), Regular(sq("a", 7), sq("a", 6)),
      Regular(D1, sq("d", 3)), Regular(sq("e", 4), sq("d", 2))>>

\* White castles queenside, then king and rook walk back to E1 and A1
second_castle_game ==
    <<Regular(sq("d", 2), sq("d", 4)), Regular(G8, sq("f", 6)),
      Regular(B1, sq("c", 3)), Regular(sq("f", 6), sq("e", 4)),
      Regular(C1, sq("f", 4)), Regular(sq("a", 7), sq("a", 6)),
      Regular(D1, sq("d", 3)), Regular(sq("e", 4), sq("f", 6)),
      Castle(A1, D1, E1, C1), Regular(sq("a", 6), sq("a", 5)),
      Regular(C1, sq("d", 2)), Regular(sq("h", 7), sq("h", 6)),
      Regular(D1, A1), Regular(sq("h", 6), sq("h", 5)),
      Regular(sq("d", 2), E1), Regular(sq("b", 7), sq("b", 6))>>

CASTLING_GAMES ==
    {rook_lift_game, knight_check_game, knight_on_d2_game, second_castle_game}

is_prefix(s, t) == Len(s) <= Len(t) /\ SubSeq(t, 1, Len(s)) = s

\* the moves with which one of these games continues the moves played
book_moves(moves) ==
    {line[Len(moves) + 1] :
        line \in {l \in BOOK \cup CASTLING_GAMES :
                    is_prefix(moves, l) /\ Len(l) > Len(moves)}}

\* moves no position of the test-suite games allows, and the castle that
\* only a few of them allow
ILLEGAL_PROBES ==
    {Regular(sq("e", 2), sq("e", 5)), Regular(sq("h", 7), sq("h", 3)),
     Castle(H1, F1, E1, G1)}

----------------------------------------------------------------------------
(* The state machine: a Game::default() and calls of Game::make_move *)

NoCall == [chess_move |-> None, result |-> "None"]

\* no string and no parsed game yet
NoFen == <<>>
NoGame == [result |-> "None"]

\* no call on the board yet
NoBoardCall == [op |-> "None", panic |-> FALSE, count |-> 0]
NoBitboardCall == [op |-> "None"]

Init ==
    /\ game = default_game
    /\ played = <<>>
    /\ call = NoCall
    /\ off_book = 0
    /\ fen_in = NoFen
    /\ fen_game = NoGame
    /\ fen_out = NoFen
    /\ chess_board = new_board
    /\ board_call = NoBoardCall
    /\ bitboard_call = NoBitboardCall

\* game.make_move(chess_move)
MakeMove(chess_move) ==
    \E by_the_book \in {off_book = 0 /\ chess_move \in book_moves(played)} :
        /\ call.result # "Panic"
        /\ by_the_book \/ off_book < MaxOffBook
        /\ \E made \in {game_make_move(game, chess_move)} :
              /\ game' = made.game
              /\ played' = IF made.result = "Ok"
                           THEN Append(played, chess_move) ELSE played
              /\ call' = [chess_move |-> chess_move, result |-> made.result]
        /\ off_book' = IF by_the_book THEN off_book ELSE off_book + 1
        /\ UNCHANGED <<fen_in, fen_game, fen_out, chess_board, board_call,
                     bitboard_call>>

Next ==
    \E chess_move \in get_moves(game) \cup ILLEGAL_PROBES : MakeMove(chess_move)

Spec == Init /\ [][Next]_vars

----------------------------------------------------------------------------
(* The rules of chess the properties are stated with: which squares a    *)
(* piece attacks from the square it stands on                             *)

piece_attacks(board, from, target) ==
    LET piece == unwrap(get_piece(board, from))
    IN  CASE piece.kind = "Pawn" ->
                IF piece.color = "White"
                THEN target \in opt_set(up_left(from)) \cup opt_set(up_right(from))
                ELSE target \in opt_set(down_left(from)) \cup opt_set(down_right(from))
          [] piece.kind = "Knight" -> target \in offset_targets(from, KNIGHT_OFFSETS)
          [] piece.kind = "King" -> target \in offset_targets(from, KING_OFFSETS)
          [] piece.kind = "Bishop" -> target \in bishop_attacks(from, board.all_pieces)
          [] piece.kind = "Rook" -> target \in rook_attacks(from, board.all_pieces)
          [] piece.kind = "Queen" -> target \in queen_attacks(from, board.all_pieces)

\* some piece of the other colour attacks a king of this colour
king_attacked(board, color) ==
    \E king \in get_bitboard(board, color, "King"),
       from \in get_occupancy_for_color(board, opponent(color)) :
        piece_attacks(board, from, king)

----------------------------------------------------------------------------
(* Properties *)

\* C1: whenever make_move has applied a move of the legal set, of whatever
\* kind, the king of the side that just moved is attacked by no enemy piece
C1_MoverKingNotAttacked ==
    call.result = "Ok" =>
        ~king_attacked(game.board, opponent(game.current_player))

\* C1 witness: White, checked by the bishop on b4 at the end of setup_game_2,
\* has answered the check with a move of the legal set
C1_Witness ==
    /\ call.result = "Ok"
    /\ Len(played) = Len(setup_game_2) + 1
    /\ is_prefix(setup_game_2, played)
    /\ ~king_attacked(game.board, "White")

\* C2: a make_move call whose move is not in the legal set, which after the
\* end of the game is every call, returns the error of its case and leaves
\* the whole Game as it was: board, side to move, castling rights, en-passant
\* targets, clocks, board history and legal set
C2_FailedMoveLeavesGame ==
    [][call'.chess_move \notin get_moves(game) =>
            /\ call'.result = IF is_over(game) THEN "Err: game is over"
                                               ELSE "Err: illegal move"
            /\ game' = game]_vars

\* C2 witness: the castle of castle_test_2, refused because the queen on g2
\* attacks f1 and g1
C2_Witness ==
    /\ played = castle_test_2
    /\ call.chess_move = Castle(H1, F1, E1, G1)
    /\ call.result = "Err: illegal move"

\* C3: game_result is None exactly when the legal set is not empty, the
\* opponent's win exactly when it is empty and the king of the side to move
\* is attacked, a draw exactly when it is empty and that king is not attacked
C3_GameResultClassifies ==
    LET attacked == king_attacked(game.board, game.current_player)
        winner == Some(Winner(opponent(game.current_player)))
    IN  call.result # "Panic" =>
            /\ game_result(game) = None <=> get_moves(game) # {}
            /\ game_result(game) = winner <=> (get_moves(game) = {} /\ attacked)
            /\ game_result(game) = Some(Draw)
                    <=> (get_moves(game) = {} /\ ~attacked)

\* C3 witness: the end of fools_mate, White mated by the queen on h4
C3_Witness ==
    /\ played = fools_mate
    /\ game_result(game) = Some(Winner("Black"))

----------------------------------------------------------------------------
(* Text: a string is the sequence of its characters *)

DIGIT_CHARS == <<"0", "1", "2", "3", "4", "5", "6", "7", "8", "9">>

\* char::to_digit(10)
to_digit(c) ==
    IF \E d \in 0 .. 9 : DIGIT_CHARS[d + 1] = c
    THEN Some(CHOOSE d \in 0 .. 9 : DIGIT_CHARS[d + 1] = c)
    ELSE None

\* u32::to_string(): the decimal digits, most significant first
RECURSIVE u32_to_string(_)
u32_to_string(n) ==
    IF n < 10
    THEN <<DIGIT_CHARS[n + 1]>>
    ELSE Append(u32_to_string(n \div 10), DIGIT_CHARS[(n % 10) + 1])

\* the number the first n characters of a string of digits denote
RECURSIVE digits_value(_, _)
digits_value(s, n) ==
    IF n = 0 THEN 0
    ELSE 10 * digits_value(s, n - 1) + unwrap(to_digit(s[n]))

\* str::parse::<u32>(): an optional '+' and at least one digit, nothing else
\* (the clocks parsed here have few digits, far from the width of a u32)
parse_u32(s) ==
    LET digits == IF s # <<>> /\ s[1] = "+" THEN Tail(s) ELSE s
    IN  IF digits = <<>> \/ \E i \in 1 .. Len(digits) : to_digit(digits[i]) = None
        THEN None
        ELSE Some(digits_value(digits, Len(digits)))

\* str::split(sep): the pieces between the separators, empty ones included
split(s, sep) ==
    LET seps == {i \in 1 .. Len(s) : s[i] = sep}
        nth(k) == IF k = 0 THEN 0
                  ELSE IF k = Cardinality(seps) + 1 THEN Len(s) + 1
                  ELSE CHOOSE i \in seps : Cardinality({j \in seps : j < i}) = k - 1
    IN  [k \in 1 .. Cardinality(seps) + 1 |-> SubSeq(s, nth(k - 1) + 1, nth(k) - 1)]

\* [String]::join(sep) of the first n parts
RECURSIVE join(_, _, _)
join(parts, sep, n) ==
    IF n = 0 THEN <<>>
    ELSE IF n = 1 THEN parts[1]
    ELSE join(parts, sep, n - 1) \o <<sep>> \o parts[n]

\* Position::to_string(): the file letter and the rank digit, as in "e3"
position_to_string(pos) ==
    <<FILE_CHARS[file_of(pos) + 1], DIGIT_CHARS[rank_of(pos) + 2]>>

\* Position::from_str(): the inverse of to_string, None for any other text
position_from_str(s) ==
    IF \E pos \in Positions : position_to_string(pos) = s
    THEN Some(CHOOSE pos \in Positions : position_to_string(pos) = s)
    ELSE None

\* Color::fen_char()
fen_char(color) == IF color = "White" THEN "w" ELSE "b"

\* the letter of a piece kind, upper case for White and lower case for Black
piece_fen_char(piece) ==
    IF piece.color = "White"
    THEN CASE piece.kind = "Pawn" -> "P" [] piece.kind = "Knight" -> "N"
           [] piece.kind = "Bishop" -> "B" [] piece.kind = "Rook" -> "R"
           [] piece.kind = "Queen" -> "Q" [] piece.kind = "King" -> "K"
    ELSE CASE piece.kind = "Pawn" -> "p" [] piece.kind = "Knight" -> "n"
           [] piece.kind = "Bishop" -> "b" [] piece.kind = "Rook" -> "r"
           [] piece.kind = "Queen" -> "q" [] piece.kind = "King" -> "k"

----------------------------------------------------------------------------
(* Forsyth-Edwards Notation *)

\* one rank of ChessBoard::to_fen_string(): scanning the files A to H, the
\* letter of each piece and a digit for each run of empty squares
rank_to_fen_string(board, rank) ==
    LET occupied(file) == has_piece_at(board, Position(file, rank))
        run(file) == file - CHOOSE g \in -1 .. file - 1 :
                               /\ g = -1 \/ occupied(g)
                               /\ \A h \in g + 1 .. file - 1 : ~occupied(h)
        token(file) ==
            IF occupied(file)
            THEN <<piece_fen_char(unwrap(get_piece(board, Position(file, rank))))>>
            ELSE IF file = FileH \/ occupied(file + 1)
            THEN <<DIGIT_CHARS[run(file) + 1]>>
            ELSE <<>>
    IN  token(FileA) \o token(FileB) \o token(FileC) \o token(FileD)
        \o token(FileE) \o token(FileF) \o token(FileG) \o token(FileH)

\* ChessBoard::to_fen_string(): the ranks from the eighth down to the first
board_to_fen_string(board) ==
    join([k \in 1 .. 8 |-> rank_to_fen_string(board, RankEight + 1 - k)], "/", 8)

\* CastlingRights::as_fen_string()
as_fen_string(castling_rights) ==
    IF /\ ~castling_rights.white_kingside /\ ~castling_rights.white_queenside
       /\ ~castling_rights.black_kingside /\ ~castling_rights.black_queenside
    THEN <<"-">>
    ELSE (IF castling_rights.white_kingside THEN <<"K">> ELSE <<>>)
         \o (IF castling_rights.white_queenside THEN <<"Q">> ELSE <<>>)
         \o (IF castling_rights.black_kingside THEN <<"k">> ELSE <<>>)
         \o (IF castling_rights.black_queenside THEN <<"q">> ELSE <<>>)

\* CastlingRights::from_str(): "-" gives all four rights; otherwise each
\* letter of KQkq gives its right, and an empty string, a repeated letter or
\* any other character is an error
castling_rights_from_str(s) ==
    IF s = <<"-">>
    THEN Some(CastlingRights(TRUE, TRUE, TRUE, TRUE))
    ELSE IF \/ s = <<>>
            \/ \E i \in 1 .. Len(s) : s[i] \notin {"K", "Q", "k", "q"}
            \/ \E i, j \in 1 .. Len(s) : i < j /\ s[i] = s[j]
    THEN None
    ELSE Some(CastlingRights(\E i \in 1 .. Len(s) : s[i] = "K",
                             \E i \in 1 .. Len(s) : s[i] = "Q",
                             \E i \in 1 .. Len(s) : s[i] = "k",
                             \E i \in 1 .. Len(s) : s[i] = "q"))

\* fen::add_file_offset
add_file_offset(file, offset) ==
    IF file + offset \in FileA .. FileH THEN Some(file + offset) ELSE None

\* the piece a placement letter stands for
piece_of_char(c) ==
    IF \E piece \in [color : Colors, kind : seq_set(PieceTypes)] :
            piece_fen_char(piece) = c
    THEN Some(CHOOSE piece \in [color : Colors, kind : seq_set(PieceTypes)] :
                  piece_fen_char(piece) = c)
    ELSE None

\* one character of a row in board_from_fen_part_0: a digit moves
\* current_file on, unless it reaches past the H file exactly; a letter puts
\* its piece on (current_file, rank) and moves one file on, unless on H
fen_row_char(board, current_file, rank, c) ==
    IF is_some(to_digit(c))
    THEN IF unwrap(to_digit(c)) + current_file = 8
         THEN [result |-> "Ok", board |-> board, current_file |-> current_file]
         ELSE IF is_some(add_file_offset(current_file, unwrap(to_digit(c))))
         THEN [result |-> "Ok", board |-> board,
               current_file |-> unwrap(add_file_offset(current_file,
                                                       unwrap(to_digit(c))))]
         ELSE [result |-> "Panic", board |-> board, current_file |-> current_file]
    ELSE IF is_some(piece_of_char(c))
    THEN the({[result |-> "Ok",
               board |-> [board EXCEPT
                   ![bitboard_field(piece.color, piece.kind)] = @ \cup {Position(current_file, rank)},
                   ![all_field(piece.kind)] = @ \cup {Position(current_file, rank)},
                   ![pieces_field(piece.color)] = @ \cup {Position(current_file, rank)},
                   !.all_pieces = @ \cup {Position(current_file, rank)}],
               current_file |-> IF current_file # FileH
                                THEN current_file + 1 ELSE current_file] :
                piece \in {unwrap(piece_of_char(c))}})
    ELSE [result |-> "Err: invalid piece char", board |-> board,
          current_file |-> current_file]

\* the characters of one row from the i-th on
RECURSIVE fen_row(_, _, _, _, _)
fen_row(board, current_file, rank, row, i) ==
    IF i > Len(row)
    THEN [result |-> "Ok", board |-> board]
    ELSE the({IF done.result = "Ok"
              THEN fen_row(done.board, done.current_file, rank, row, i + 1)
              ELSE [result |-> done.result, board |-> board] :
                done \in {fen_row_char(board, current_file, rank, row[i])}})

\* the sum of the content of a row: a digit counts its value, a letter one
RECURSIVE fen_row_sum(_, _)
fen_row_sum(row, n) ==
    IF n = 0 THEN 0
    ELSE fen_row_sum(row, n - 1)
         + (IF is_some(to_digit(row[n])) THEN unwrap(to_digit(row[n])) ELSE 1)

\* the rows from the k-th on, the first one being the eighth rank
RECURSIVE fen_rows(_, _, _)
fen_rows(board, rows, k) ==
    IF k > Len(rows)
    THEN [result |-> "Ok", board |-> board]
    ELSE IF fen_row_sum(rows[k], Len(rows[k])) # 8
    THEN [result |-> "Err: invalid board", board |-> board]
    ELSE the({IF done.result = "Ok"
              THEN fen_rows(done.board, rows, k + 1)
              ELSE done :
                done \in {fen_row(board, FileA, RankEight + 1 - k, rows[k], 1)}})

\* fen::board_from_fen_part_0
board_from_fen_part_0(part0) ==
    the({IF Len(rows) # 8
         THEN [result |-> "Err: invalid board", board |-> [f \in BOARD_FIELDS |-> {}]]
         ELSE fen_rows([f \in BOARD_FIELDS |-> {}], rows, 1) :
            rows \in {split(part0, "/")}})

\* Fen::new
Fen(board, current_player, castling_rights, white_en_passant_target, black_en_passant_target, halfmoves, fullmoves) ==
    [board |-> board,
     current_player |-> current_player,
     castling_rights |-> castling_rights,
     white_en_passant_target |-> white_en_passant_target,
     black_en_passant_target |-> black_en_passant_target,
     halfmoves |-> halfmoves,
     fullmoves |-> fullmoves]

\* the en passant field of Fen::from_str: "-" is no target, a square of the
\* seventh rank White's target and a square of the second rank Black's;
\* any other text is an error
fen_en_passant_targets(part) ==
    IF part = <<"-">>
    THEN [result |-> "Ok", white |-> None, black |-> None]
    ELSE IF is_some(position_from_str(part))
    THEN IF rank_of(unwrap(position_from_str(part))) = RankSeven
         THEN [result |-> "Ok", white |-> position_from_str(part), black |-> None]
         ELSE IF rank_of(unwrap(position_from_str(part))) = RankTwo
         THEN [result |-> "Ok", white |-> None, black |-> position_from_str(part)]
         ELSE [result |-> "Err: invalid en passant target", white |-> None, black |-> None]
    ELSE [result |-> "Err: invalid en passant target", white |-> None, black |-> None]

\* Fen::from_str
fen_from_str(s) ==
    the({IF Len(parts) # 6
         THEN [result |-> "Err: fen string must contain exactly 6 parts"]
         ELSE the({
            IF placed.result # "Ok"
            THEN [result |-> placed.result]
            ELSE IF parts[2] \notin {<<"w">>, <<"b">>}
            THEN [result |-> "Err: invalid player"]
            ELSE IF castling_rights_from_str(parts[3]) = None
            THEN [result |-> "Err: invalid castling rights"]
            ELSE IF fen_en_passant_targets(parts[4]).result # "Ok"
            THEN [result |-> fen_en_passant_targets(parts[4]).result]
            ELSE IF parse_u32(parts[5]) = None
            THEN [result |-> "Err: invalid half moves"]
            ELSE IF parse_u32(parts[6]) = None
            THEN [result |-> "Err: invalid full moves"]
            ELSE [result |-> "Ok",
                  fen |-> Fen(placed.board,
                              IF parts[2] = <<"w">> THEN "White" ELSE "Black",
                              unwrap(castling_rights_from_str(parts[3])),
                              fen_en_passant_targets(parts[4]).white,
                              fen_en_passant_targets(parts[4]).black,
                              unwrap(parse_u32(parts[5])),
                              unwrap(parse_u32(parts[6])))] :
                placed \in {board_from_fen_part_0(parts[1])}}) :
            parts \in {split(s, " ")}})

\* impl Display for Fen: the six fields joined by single spaces
fen_to_string(fen) ==
    join(<<board_to_fen_string(fen.board),
           <<fen_char(fen.current_player)>>,
           as_fen_string(fen.castling_rights),
           IF is_some(fen.white_en_passant_target)
           THEN position_to_string(unwrap(fen.white_en_passant_target))
           ELSE IF is_some(fen.black_en_passant_target)
           THEN position_to_string(unwrap(fen.black_en_passant_target))
           ELSE <<"-">>,
           u32_to_string(fen.halfmoves),
           u32_to_string(fen.fullmoves)>>, " ", 6)

\* Game::from_fen_string: the game of the record, its legal moves evaluated
from_fen_string(s) ==
    the({IF parsed.result # "Ok"
         THEN [result |-> parsed.result]
         ELSE the({[result |-> IF evaluated.panic THEN "Panic" ELSE "Ok",
                    game |-> new_game(parsed.fen.current_player, evaluated.mm,
                                      parsed.fen.board)] :
                evaluated \in {evaluate_legal_moves(
                    new_move_manager(0, {},
                                     parsed.fen.white_en_passant_target,
                                     parsed.fen.black_en_passant_target,
                                     parsed.fen.castling_rights,
                                     parsed.fen.halfmoves,
                                     parsed.fen.fullmoves),
                    parsed.fen.board, parsed.fen.current_player)}}) :
            parsed \in {fen_from_str(s)}})

\* Game::to_fen_string
to_fen_string(g) ==
    fen_to_string(Fen(g.board, g.current_player, g.move_manager.castling_rights,
                      g.move_manager.white_en_passant_target,
                      g.move_manager.black_en_passant_target,
                      g.move_manager.half_moves, g.move_manager.full_moves))

----------------------------------------------------------------------------
(* The codec on its own: a FEN string is parsed and the game written back *)

\* the placement of Game::default(), the one of tests::from_fen_test and the
\* one after the first move of tests::to_fen_string_test
FEN_PLACEMENTS ==
    {<<"r", "n", "b", "q", "k", "b", "n", "r", "/", "p", "p", "p", "p", "p", "p", "p", "p", "/", "8", "/", "8", "/", "8", "/", "8", "/", "P", "P", "P", "P", "P", "P", "P", "P", "/", "R", "N", "B", "Q", "K", "B", "N", "R">>,
     <<"8", "/", "5", "k", "2", "/", "3", "p", "4", "/", "1", "p", "1", "P", "p", "2", "p", "/", "p", "P", "2", "P", "p", "1", "P", "/", "P", "4", "P", "1", "K", "/", "8", "/", "8">>,
     <<"r", "n", "b", "q", "k", "b", "n", "r", "/", "p", "p", "p", "p", "p", "p", "p", "p", "/", "8", "/", "8", "/", "4", "P", "3", "/", "8", "/", "P", "P", "P", "P", "1", "P", "P", "P", "/", "R", "N", "B", "Q", "K", "B", "N", "R">>}

\* placements that break a rule of the position: the initial one without
\* the White king, and the one of tests::from_fen_test without its Black
\* king, with a White pawn on the eighth rank and with a Black pawn on the
\* first
FEN_INVALID_PLACEMENTS ==
    {<<"r", "n", "b", "q", "k", "b", "n", "r", "/", "p", "p", "p", "p", "p", "p", "p", "p", "/", "8", "/", "8", "/", "8", "/", "8", "/", "P", "P", "P", "P", "P", "P", "P", "P", "/", "R", "N", "B", "Q", "1", "B", "N", "R">>,
     <<"8", "/", "8", "/", "3", "p", "4", "/", "1", "p", "1", "P", "p", "2", "p", "/", "p", "P", "2", "P", "p", "1", "P", "/", "P", "4", "P", "1", "K", "/", "8", "/", "8">>,
     <<"3", "P", "4", "/", "5", "k", "2", "/", "3", "p", "4", "/", "1", "p", "1", "P", "p", "2", "p", "/", "p", "P", "2", "P", "p", "1", "P", "/", "P", "4", "P", "1", "K", "/", "8", "/", "8">>,
     <<"8", "/", "5", "k", "2", "/", "3", "p", "4", "/", "1", "p", "1", "P", "p", "2", "p", "/", "p", "P", "2", "P", "p", "1", "P", "/", "P", "4", "P", "1", "K", "/", "8", "/", "3", "p", "4">>}

\* castling fields: none, all, and some in and out of the order KQkq
FEN_CASTLINGS ==
    {<<"-">>, <<"K", "Q", "k", "q">>, <<"K", "q">>, <<"q", "K">>,
     <<"k", "Q">>, <<"Q">>}

\* en passant fields: none, the squares behind a double push of each side,
\* squares of the second and the seventh rank, and text that is no square
FEN_EN_PASSANTS ==
    {<<"-">>, <<"e", "3">>, <<"d", "6">>, <<"e", "2">>, <<"d", "7">>,
     <<"e", "9">>, <<"e">>}

\* halfmove clock and fullmove number
FEN_CLOCKS == {<<0, 1>>, <<99, 50>>}

FEN_INPUTS ==
    {join(<<placement, <<side>>, castling, en_passant,
            u32_to_string(clocks[1]), u32_to_string(clocks[2])>>, " ", 6) :
        placement \in FEN_PLACEMENTS \cup FEN_INVALID_PLACEMENTS,
        side \in {"w", "b"},
        castling \in FEN_CASTLINGS, en_passant \in FEN_EN_PASSANTS,
        clocks \in FEN_CLOCKS}

InitFen ==
    /\ game = default_game
    /\ played = <<>>
    /\ call = NoCall
    /\ off_book = 0
    /\ fen_in \in FEN_INPUTS
    /\ fen_game = NoGame
    /\ fen_out = NoFen
    /\ chess_board = new_board
    /\ board_call = NoBoardCall
    /\ bitboard_call = NoBitboardCall

\* Game::from_fen_string(fen_in)
FromFen ==
    /\ fen_game = NoGame
    /\ fen_game' = from_fen_string(fen_in)
    /\ UNCHANGED <<game, played, call, off_book, fen_in, fen_out, chess_board,
                   board_call, bitboard_call>>

\* to_fen_string() of the game that was parsed
ToFen ==
    /\ fen_game.result = "Ok"
    /\ fen_out = NoFen
    /\ fen_out' = to_fen_string(fen_game.game)
    /\ UNCHANGED <<game, played, call, off_book, fen_in, fen_game, chess_board,
                   board_call, bitboard_call>>

NextFen == FromFen \/ ToFen

SpecFen == InitFen /\ [][NextFen]_vars

\* the canonical form of a castling field: its letters in the order KQkq
canonical_castling(field) ==
    IF field = <<"-">> THEN field
    ELSE (IF \E i \in 1 .. Len(field) : field[i] = "K" THEN <<"K">> ELSE <<>>)
         \o (IF \E i \in 1 .. Len(field) : field[i] = "Q" THEN <<"Q">> ELSE <<>>)
         \o (IF \E i \in 1 .. Len(field) : field[i] = "k" THEN <<"k">> ELSE <<>>)
         \o (IF \E i \in 1 .. Len(field) : field[i] = "q" THEN <<"q">> ELSE <<>>)

\* the canonical form of a FEN string: the same six fields, the castling
\* letters in the order KQkq
canonical(s) ==
    join([split(s, " ") EXCEPT ![3] = canonical_castling(@)], " ", 6)

\* C4: for every game reached from the initial position by successful
\* make_move calls, from_fen_string(to_fen_string(game)) succeeds and gives a
\* game with the same board, side to move, castling rights, en passant
\* targets, halfmove clock and fullmove number.
C4_FenRoundTrip ==
    call.result \in {"None", "Ok"} =>
        \A back \in {from_fen_string(to_fen_string(game))} :
            /\ back.result = "Ok"
            /\ back.game.board = game.board
            /\ back.game.current_player = game.current_player
            /\ back.game.move_manager.castling_rights
                   = game.move_manager.castling_rights
            /\ back.game.move_manager.white_en_passant_target
                   = game.move_manager.white_en_passant_target
            /\ back.game.move_manager.black_en_passant_target
                   = game.move_manager.black_en_passant_target
            /\ back.game.move_manager.half_moves = game.move_manager.half_moves
            /\ back.game.move_manager.full_moves = game.move_manager.full_moves

\* C5: for every well-formed FEN string that from_fen_string accepts, the
\* string to_fen_string writes for the parsed game is the canonical form of
\* the input; a castling field "-" comes back as "-".
C5_FenCanonical ==
    fen_out # NoFen => fen_out = canonical(fen_in)

----------------------------------------------------------------------------
(* The position state a move leaves *)

\* the squares that are an en passant target of either side
en_passant_targets(g) ==
    opt_set(g.move_manager.white_en_passant_target)
    \cup opt_set(g.move_manager.black_en_passant_target)

\* by the rules: the move takes a pawn two ranks along its file
pawn_double_push(board, chess_move) ==
    /\ chess_move.type = "Regular"
    /\ chess_move.from \in board.all_pawns
    /\ file_of(chess_move.from) = file_of(chess_move.to)
    /\ abs(rank_of(chess_move.from) - rank_of(chess_move.to)) = 2

\* by the rules: the move is made by a pawn, or it captures
pawn_move_or_capture(board, chess_move) ==
    \/ move_from(chess_move) \in board.all_pawns
    \/ move_to(chess_move) \in board.all_pieces
    \/ is_en_passant(chess_move)

C7_HalfmoveClock ==
    [][call'.result = "Ok" =>
        game'.move_manager.half_moves =
            IF pawn_move_or_capture(game.board, call'.chess_move)
            THEN 0 ELSE game.move_manager.half_moves + 1]_vars

\* White has castled and the clock has counted the move
C7_Witness ==
    /\ call.result = "Ok"
    /\ played = castle_test_1
    /\ is_castle(call.chess_move)
    /\ game.move_manager.half_moves > 0

\* C8: after n successful moves from the initial position the side to move
\* is White iff n is even and the fullmove number is 1 + floor(n / 2): each
\* move toggles the side, and the number grows by one with Black's moves
\* only.
C8_SideAndFullmove ==
    call.result # "Panic" =>
        /\ game.current_player = "White" <=> Len(played) % 2 = 0
        /\ game.move_manager.full_moves = 1 + (Len(played) \div 2)

\* two moves of each side have been made
C8_Witness ==
    /\ played = fools_mate
    /\ game.current_player = "White"
    /\ game.move_manager.full_moves = 3

\* C9: each of the four castling rights, once false, is false ever after.
C9_CastlingRightsMonotone ==
    [][\A right \in DOMAIN default_castling_rights :
            ~game.move_manager.castling_rights[right]
                => ~game'.move_manager.castling_rights[right]]_vars

\* White's rights went with the king's move and three moves later are
\* still gone
C9_Witness ==
    /\ played = to_fen_string_test
    /\ ~game.move_manager.castling_rights.white_kingside
    /\ ~game.move_manager.castling_rights.white_queenside

\* C10: after a successful make_move from or to E1 both of White's castling
\* rights are false, and after one from or to E8 both of Black's; the
\* Castle moves, which start on the king's square, are among them.
C10_KingSquareRevokesRights ==
    call.result = "Ok" =>
        /\ E1 \in {move_from(call.chess_move), move_to(call.chess_move)}
            => /\ ~game.move_manager.castling_rights.white_kingside
               /\ ~game.move_manager.castling_rights.white_queenside
        /\ E8 \in {move_from(call.chess_move), move_to(call.chess_move)}
            => /\ ~game.move_manager.castling_rights.black_kingside
               /\ ~game.move_manager.castling_rights.black_queenside

\* C11: after a successful make_move from or to H1 the White kingside right
\* is false; likewise A1 and the White queenside right, H8 and the Black
\* kingside right, A8 and the Black queenside right.
C11_RookSquareRevokesRight ==
    call.result = "Ok" =>
        \A corner \in {<<H1, "white_kingside">>, <<A1, "white_queenside">>,
                       <<H8, "black_kingside">>, <<A8, "black_queenside">>} :
            corner[1] \in {move_from(call.chess_move), move_to(call.chess_move)}
                => ~game.move_manager.castling_rights[corner[2]]

\* by the rules: some piece of the colour attacks the square
square_attacked(board, target, by_color) ==
    \E from \in get_occupancy_for_color(board, by_color) :
        piece_attacks(board, from, target)

\* C12: with White to move the kingside Castle is in the legal set iff the
\* White kingside right is held, F1 and G1 are empty and none of E1, F1, G1
\* is attacked by Black; with Black to move the same on E8, F8, G8. A king
\* in check cannot castle.
C12_KingsideCastleIff ==
    call.result # "Panic" =>
        /\ game.current_player = "White" =>
              (Castle(H1, F1, E1, G1) \in get_moves(game)
                <=> /\ game.move_manager.castling_rights.white_kingside
                    /\ {F1, G1} \cap game.board.all_pieces = {}
                    /\ \A pos \in {E1, F1, G1} :
                            ~square_attacked(game.board, pos, "Black"))
        /\ game.current_player = "Black" =>
              (Castle(H8, F8, E8, G8) \in get_moves(game)
                <=> /\ game.move_manager.castling_rights.black_kingside
                    /\ {F8, G8} \cap game.board.all_pieces = {}
                    /\ \A pos \in {E8, F8, G8} :
                            ~square_attacked(game.board, pos, "White"))

\* by the rules, the B-file square aside: the side holds the queenside
\* right, its king and rook stand on their squares of the rank, the three
\* squares between them are empty and the king's square and the two it
\* passes over are not attacked
queenside_castle_allowed(g, color, rank) ==
    /\ IF color = "White"
       THEN g.move_manager.castling_rights.white_queenside
       ELSE g.move_manager.castling_rights.black_queenside
    /\ Position(FileE, rank) \in get_bitboard(g.board, color, "King")
    /\ Position(FileA, rank) \in get_bitboard(g.board, color, "Rook")
    /\ \A file \in {FileB, FileC, FileD} :
            Position(file, rank) \notin g.board.all_pieces
    /\ \A file \in {FileC, FileD, FileE} :
            ~square_attacked(g.board, Position(file, rank), opponent(color))

\* C13: the queenside Castle needs B1, C1 and D1 empty and E1, D1 and C1
\* not attacked, but not B1 unattacked: where the other conditions hold and
\* only B1 is attacked, the queenside Castle is in the legal set; the same
\* for Black on the eighth rank.
C13_QueensideCastleIgnoresBFile ==
    call.result # "Panic" =>
        /\ game.current_player = "White" =>
              (Castle(A1, D1, E1, C1) \in get_moves(game)
                <=> queenside_castle_allowed(game, "White", RankOne))
        /\ game.current_player = "Black" =>
              (Castle(A8, D8, E8, C8) \in get_moves(game)
                <=> queenside_castle_allowed(game, "Black", RankEight))

\* C14: move generation never fails: after every successful make_move the
\* legal set of the new position is computed, its Castle and EnPassant
\* candidates tried out included, without a panic on a missing piece.
C14_MoveGenerationNeverPanics ==
    call.result # "Panic"

\* by the rules: a placement with no White king, with no Black king, or
\* with a pawn on the eighth or the first rank
placement_breaks_rules(placement) ==
    LET rows == split(placement, "/")
    IN  \/ \A i \in 1 .. Len(placement) : placement[i] # "K"
        \/ \A i \in 1 .. Len(placement) : placement[i] # "k"
        \/ \E row \in {rows[1], rows[Len(rows)]} :
                \E i \in 1 .. Len(row) : row[i] \in {"P", "p"}

\* C15: from_fen_string of a well-formed FEN whose placement has no White
\* king, no Black king, or a pawn on the first or the eighth rank returns an
\* error; it neither panics nor returns a Game.
C15_InvalidPlacementRejected ==
    fen_game # NoGame /\ placement_breaks_rules(split(fen_in, " ")[1])
        => fen_game.result \notin {"Ok", "Panic"}

\* C16: the parser accepts the en passant field iff it is "-" or a square of
\* the third or the sixth rank, and stores that square as the target; a
\* square of another rank and text that is no square are errors.
C16_EnPassantFieldRanks ==
    fen_game # NoGame =>
        \A field \in {split(fen_in, " ")[4]} :
            /\ fen_game.result \in {"Ok", "Panic"}
                <=> \/ field = <<"-">>
                    \/ /\ Len(field) = 2
                       /\ field[1] \in seq_set(FILE_CHARS)
                       /\ field[2] \in {"3", "6"}
            /\ fen_game.result = "Ok" =>
                  en_passant_targets(fen_game.game)
                      = IF field = <<"-">> THEN {}
                        ELSE {sq(field[1], unwrap(to_digit(field[2])))}

----------------------------------------------------------------------------
(* The board on its own: set_piece, take_piece and clear from the initial *)
(* placement                                                             *)

\* at most this many calls are made on the board
MaxBoardCalls == 2

\* the squares the calls are made on: a White and a Black piece of the
\* initial placement, a pawn, and an empty square
BOARD_SQUARES == {E1, D8, sq("a", 7), sq("e", 4)}

InitBoard ==
    /\ game = default_game
    /\ played = <<>>
    /\ call = NoCall
    /\ off_book = 0
    /\ fen_in = NoFen
    /\ fen_game = NoGame
    /\ fen_out = NoFen
    /\ chess_board = new_board
    /\ board_call = NoBoardCall
    /\ bitboard_call = NoBitboardCall

\* chess_board.set_piece(pos, piece)
SetPiece(pos, piece) ==
    /\ board_call.count < MaxBoardCalls
    /\ ~board_call.panic
    /\ \E done \in {set_piece(chess_board, pos, piece)} :
          /\ chess_board' = done.board
          /\ board_call' = [op |-> "set_piece", panic |-> done.panic,
                            count |-> board_call.count + 1]
    /\ UNCHANGED <<game, played, call, off_book, fen_in, fen_game, fen_out,
                   bitboard_call>>

\* chess_board.take_piece(pos)
TakePiece(pos) ==
    /\ board_call.count < MaxBoardCalls
    /\ ~board_call.panic
    /\ \E done \in {take_piece(chess_board, pos)} :
          /\ chess_board' = done.board
          /\ board_call' = [op |-> "take_piece", panic |-> done.panic,
                            count |-> board_call.count + 1]
    /\ UNCHANGED <<game, played, call, off_book, fen_in, fen_game, fen_out,
                   bitboard_call>>

\* chess_board.clear()
Clear ==
    /\ board_call.count < MaxBoardCalls
    /\ ~board_call.panic
    /\ chess_board' = clear(chess_board)
    /\ board_call' = [op |-> "clear", panic |-> FALSE,
                      count |-> board_call.count + 1]
    /\ UNCHANGED <<game, played, call, off_book, fen_in, fen_game, fen_out,
                   bitboard_call>>

NextBoard ==
    \/ \E pos \in BOARD_SQUARES, color \in Colors, kind \in seq_set(PieceTypes) :
            SetPiece(pos, Piece(color, kind))
    \/ \E pos \in BOARD_SQUARES : TakePiece(pos)
    \/ Clear

SpecBoard == InitBoard /\ [][NextBoard]_vars

\* C17: after any calls of set_piece, take_piece and clear on the initial
\* board the twelve bitboards of a colour and a kind are pairwise disjoint,
\* white_pieces and black_pieces are the unions of their colour's six,
\* each all_<kind> is the union of the two of its kind, all_pieces is the
\* union of white_pieces and black_pieces, get_piece(sq) is Some(c, k) iff
\* sq is in the bitboard of c and k, and take_piece has not panicked.
C17_BoardConsistent ==
    /\ \A c1, c2 \in Colors, k1, k2 \in seq_set(PieceTypes) :
            <<c1, k1>> # <<c2, k2>>
                => get_bitboard(chess_board, c1, k1)
                   \cap get_bitboard(chess_board, c2, k2) = {}
    /\ \A color \in Colors :
            get_occupancy_for_color(chess_board, color)
                = UNION {get_bitboard(chess_board, color, kind) :
                            kind \in seq_set(PieceTypes)}
    /\ \A kind \in seq_set(PieceTypes) :
            chess_board[all_field(kind)]
                = get_bitboard(chess_board, "White", kind)
                  \cup get_bitboard(chess_board, "Black", kind)
    /\ chess_board.all_pieces
            = chess_board.white_pieces \cup chess_board.black_pieces
    /\ \A pos \in Positions, color \in Colors, kind \in seq_set(PieceTypes) :
            get_piece(chess_board, pos) = Some(Piece(color, kind))
                <=> pos \in get_bitboard(chess_board, color, kind)
    /\ ~board_call.panic

\* a Black queen was set on the White king's square and then taken off it
C17_Witness ==
    /\ board_call = [op |-> "take_piece", panic |-> FALSE, count |-> 2]
    /\ E1 \notin chess_board.all_pieces
    /\ chess_board.white_kings = {}
    /\ chess_board.black_queens = {D8}

\* C18: in every game reached by successful make_move calls there is
\* exactly one White king and exactly one Black king on the board.
C18_OneKingEach ==
    call.result # "Panic" =>
        \A color \in Colors :
            Cardinality(get_bitboard(game.board, color, "King")) = 1

\* a pawn has been promoted, and each side still has its one king
C18_Witness ==
    /\ played = promotion_test
    /\ is_promotion(call.chess_move)
    /\ call.result = "Ok"
    /\ \A color \in Colors :
            Cardinality(get_bitboard(game.board, color, "King")) = 1

\* C19: in the initial position, White to move, the legal set is exactly
\* twenty Regular moves: the single and the double push of each of the
\* eight pawns and the knight moves B1-A3, B1-C3, G1-F3, G1-H3.
C19_InitialLegalMoves ==
    played = <<>> =>
        /\ game.current_player = "White"
        /\ get_moves(game)
            = {Regular(Position(file, RankTwo), Position(file, rank)) :
                    file \in FileA .. FileH, rank \in {RankThree, RankFour}}
              \cup {Regular(B1, sq("a", 3)), Regular(B1, sq("c", 3)),
                    Regular(G1, sq("f", 3)), Regular(G1, sq("h", 3))}

\* the initial position, before any call
C19_Witness ==
    /\ played = <<>>
    /\ call = NoCall
    /\ game.board = new_board
    /\ Cardinality(get_moves(game)) = 20

\* C20: from the initial position the calls F2-F3, E7-E5, G2-G4, D8-H4 are
\* each accepted; after them the White king is in check, White has no legal
\* move and game_result is Winner(Black).
C20_FoolsMate ==
    /\ \A n \in 0 .. (Len(fools_mate) - 1) :
            played = SubSeq(fools_mate, 1, n) =>
                /\ ~is_over(game)
                /\ is_legal(game.move_manager, fools_mate[n + 1])
                /\ game_make_move(game, fools_mate[n + 1]).result = "Ok"
    /\ played = fools_mate =>
            /\ game.current_player = "White"
            /\ king_attacked(game.board, "White")
            /\ is_in_check(game.board, "White")
            /\ get_moves(game) = {}
            /\ game_result(game) = Some(Winner("Black"))

\* the position right after D8-H4 was accepted
C20_Witness ==
    /\ played = fools_mate
    /\ call = [chess_move |-> fools_mate[4], result |-> "Ok"]
    /\ get_piece(game.board, sq("h", 4)) = Some(Piece("Black", "Queen"))
    /\ get_moves(game) = {}

\* C21: from the initial position each of the nineteen moves of
\* tests::stalemate_test is a Regular move of the legal set and is accepted;
\* afterwards Black is to move, has no legal move, is not in check, and
\* game_result is Draw.
C21_Stalemate ==
    /\ \A n \in 0 .. (Len(stalemate_test) - 1) :
            played = SubSeq(stalemate_test, 1, n) =>
                /\ stalemate_test[n + 1].type = "Regular"
                /\ stalemate_test[n + 1] \in get_moves(game)
                /\ game_make_move(game, stalemate_test[n + 1]).result = "Ok"
    /\ played = stalemate_test =>
            /\ game.current_player = "Black"
            /\ get_moves(game) = {}
            /\ ~king_attacked(game.board, "Black")
            /\ ~is_in_check(game.board, "Black")
            /\ game_result(game) = Some(Draw)

\* the position right after C8-E6 was accepted
C21_Witness ==
    /\ played = stalemate_test
    /\ Len(played) = 19
    /\ call = [chess_move |-> stalemate_test[19], result |-> "Ok"]
    /\ is_over(game)

\* the squares beside pos on its rank
beside(pos) ==
    {p \in Positions : rank_of(p) = rank_of(pos) /\ abs(file_of(p) - file_of(pos)) = 1}

\* the en passant capture that answers the double push from -> to, made by
\* the pawn on capturer
en_passant_answer(capturer, from, to) ==
    EnPassant(capturer, (from + to) \div 2, from, to)

\* C22: when a pawn double push has landed beside an enemy pawn on the same
\* rank, the opponent's legal set contains the EnPassant move of that pawn
\* to the skipped square unless it would leave the capturer's king attacked;
\* applying it empties the capturer's square and the captured pawn's square,
\* puts the capturing pawn on the skipped square and leaves no en passant
\* target.  Instance: after E2-E4, H7-H6, E4-E5, D7-D5 the target is D6 and
\* EnPassant E5 to D6 taking on D5 is legal.
C22_EnPassantCapture ==
    /\ (/\ call.result = "Ok"
        /\ call.chess_move.type = "Regular"
        /\ call.chess_move.to \in game.board.all_pawns
        /\ file_of(call.chess_move.from) = file_of(call.chess_move.to)
        /\ abs(rank_of(call.chess_move.from) - rank_of(call.chess_move.to)) = 2)
       => \A capturer \in beside(call.chess_move.to) :
            get_piece(game.board, capturer)
                    = Some(Piece(game.current_player, "Pawn"))
            => \A answer \in {en_passant_answer(capturer, call.chess_move.from,
                                                 call.chess_move.to)} :
                /\ ~king_attacked(
                        dry_run_move(game.board, game.current_player, answer).board,
                        game.current_player)
                   => answer \in get_moves(game)
                /\ answer \in get_moves(game)
                   => \A made \in {game_make_move(game, answer)} :
                        /\ made.result = "Ok"
                        /\ get_piece(made.game.board, capturer) = None
                        /\ get_piece(made.game.board, call.chess_move.to) = None
                        /\ get_piece(made.game.board, answer.to)
                                = Some(Piece(game.current_player, "Pawn"))
                        /\ en_passant_targets(made.game) = {}
    /\ played = setup_game_1
       => /\ en_passant_targets(game) = {sq("d", 6)}
          /\ EnPassant(sq("e", 5), sq("d", 6), sq("d", 7), sq("d", 5))
                \in get_moves(game)
    /\ played = en_passant_test
       => /\ get_piece(game.board, sq("d", 5)) = None
          /\ get_piece(game.board, sq("e", 5)) = None
          /\ get_piece(game.board, sq("d", 6)) = Some(Piece("White", "Pawn"))
          /\ en_passant_targets(game) = {}

\* the en passant capture of tests::en_passant has been applied
C22_Witness ==
    /\ played = en_passant_test
    /\ call = [chess_move |-> en_passant_answer(sq("e", 5), sq("d", 7), sq("d", 5)),
               result |-> "Ok"]
    /\ sq("d", 5) \notin game.board.all_pieces

\* the text parsed by tests::from_fen_test
from_fen_test_input ==
    join(<<<<"8", "/", "5", "k", "2", "/", "3", "p", "4", "/", "1", "p", "1", "P", "p", "2", "p", "/", "p", "P", "2", "P", "p", "1", "P", "/", "P", "4", "P", "1", "K", "/", "8", "/", "8">>,
           <<"b">>, <<"-">>, <<"-">>, u32_to_string(99), u32_to_string(50)>>,
         " ", 6)

\* C23: for the game parsed from
\* "8/5k2/3p4/1p1Pp2p/pP2Pp1P/P4P1K/8/8 b - - 99 50" the legal moves from F7
\* are the eight moves F7-E6, F7-F6, F7-G6, F7-E7, F7-G7, F7-E8, F7-F8, F7-G8
\* (the claim as stated).
C23_KingMovesFromF7 ==
    fen_in = from_fen_test_input /\ fen_game # NoGame =>
        /\ fen_game.result = "Ok"
        /\ get_moves_from(fen_game.game, sq("f", 7))
            = {Regular(sq("f", 7), to) :
                to \in {sq("e", 6), sq("f", 6), sq("g", 6), sq("e", 7),
                        sq("g", 7), sq("e", 8), sq("f", 8), sq("g", 8)}}

\* C23 as amended: the legal moves from F7 are the seven moves F7-F6, F7-G6,
\* F7-E7, F7-G7, F7-E8, F7-F8, F7-G8; F7-E6 is not among them, E6 being
\* attacked by the White pawn on D5.
C23_KingMovesFromF7_Amended ==
    fen_in = from_fen_test_input /\ fen_game # NoGame =>
        /\ fen_game.result = "Ok"
        /\ fen_game.game.current_player = "Black"
        /\ get_moves_from(fen_game.game, sq("f", 7))
            = {Regular(sq("f", 7), to) :
                to \in {sq("f", 6), sq("g", 6), sq("e", 7),
                        sq("g", 7), sq("e", 8), sq("f", 8), sq("g", 8)}}
        /\ square_attacked(fen_game.game.board, sq("e", 6), "White")

\* the text of tests::from_fen_test has been parsed
C23_Witness ==
    /\ fen_in = from_fen_test_input
    /\ fen_game # NoGame
    /\ fen_game.result = "Ok"
    /\ get_piece(fen_game.game.board, sq("f", 7)) = Some(Piece("Black", "King"))

\* C24: promotion_moves(from, to) returns exactly four Promotion moves with
\* the given from and to, whose pieces are Knight, Bishop, Rook, Queen in
\* that order; stated of every promotion square pair the move generator
\* hands to promotion_moves in a reachable game.
C24_PromotionMovesOrder ==
    \A chess_move \in get_moves(game) :
        is_promotion(chess_move) =>
            \A moves \in {promotion_moves(chess_move.from, chess_move.to)} :
                /\ Len(moves) = 4
                /\ \A i \in 1 .. 4 :
                        /\ moves[i].type = "Promotion"
                        /\ moves[i].from = chess_move.from
                        /\ moves[i].to = chess_move.to
                /\ <<moves[1].piece, moves[2].piece, moves[3].piece, moves[4].piece>>
                        = <<"Knight", "Bishop", "Rook", "Queen">>

\* C24 as amended: promotion_moves(from, to) returns exactly four Promotion
\* moves with the given from and to, whose pieces are Bishop, Knight, Rook,
\* Queen in that order.
C24_PromotionMovesOrder_Amended ==
    \A chess_move \in get_moves(game) :
        is_promotion(chess_move) =>
            \A moves \in {promotion_moves(chess_move.from, chess_move.to)} :
                /\ Len(moves) = 4
                /\ \A i \in 1 .. 4 :
                        /\ moves[i].type = "Promotion"
                        /\ moves[i].from = chess_move.from
                        /\ moves[i].to = chess_move.to
                /\ <<moves[1].piece, moves[2].piece, moves[3].piece, moves[4].piece>>
                        = <<"Bishop", "Knight", "Rook", "Queen">>

\* a game in which the pawn on A7 may promote on A8 or, capturing, on B8
C24_Witness ==
    /\ played = setup_promotion_game
    /\ seq_set(promotion_moves(sq("a", 7), sq("b", 8))) \subseteq get_moves(game)

----------------------------------------------------------------------------
(* bitboard.rs: a Bitboard is a u64, modelled as the set of its one bits *)

\* the bit positions of a u64
BITS == 0 .. 63

get_bit_index(pos) == (8 * rank_of(pos)) + file_of(pos)

\* Bitboard::with_one: set_bit ors 1 << bit_index into the data
with_one(bb, pos) == bb \cup {get_bit_index(pos)}

\* << and >> on u64: bits moved beyond either end are lost
shl(bb, rhs) == {b + rhs : b \in bb} \cap BITS
shr(bb, rhs) == {b - rhs : b \in bb} \cap BITS

FILE_A == {b \in BITS : b % 8 = 0}
FILE_B == {b \in BITS : b % 8 = 1}
FILE_G == {b \in BITS : b % 8 = 6}
FILE_H == {b \in BITS : b % 8 = 7}
FILE_A_CLEAR == BITS \ FILE_A
FILE_B_CLEAR == BITS \ FILE_B
FILE_G_CLEAR == BITS \ FILE_G
FILE_H_CLEAR == BITS \ FILE_H

\* Bitboard::knight_moves: west_north is or-ed twice, west_south never
knight_moves(pos) ==
    LET bb == with_one({}, pos)
        north_east == shl(bb, 17) \cap FILE_A_CLEAR
        east_north == shl(bb, 10) \cap FILE_A_CLEAR \cap FILE_B_CLEAR
        east_south == shr(bb, 6) \cap FILE_A_CLEAR \cap FILE_B_CLEAR
        south_east == shr(bb, 15) \cap FILE_A_CLEAR
        south_west == shr(bb, 17) \cap FILE_H_CLEAR
        west_south == shr(bb, 10) \cap FILE_H_CLEAR \cap FILE_G_CLEAR
        west_north == shl(bb, 6) \cap FILE_H_CLEAR \cap FILE_G_CLEAR
        north_west == shl(bb, 15) \cap FILE_H_CLEAR
    IN  north_east \cup east_north \cup east_south \cup south_east
            \cup south_west \cup west_north \cup west_north \cup north_west

\* Bitboard::all_white and Bitboard::all_black: the pieces of ChessBoard::new
all_white ==
    shl(0 .. 7, 8) \cup {2, 5} \cup {1, 6} \cup {0, 7} \cup {3}
        \cup with_one({}, E1)
all_black ==
    shl(0 .. 7, 48) \cup shl({2, 5}, 56) \cup shl({1, 6}, 56)
        \cup shl({0, 7}, 56) \cup shl({3}, 56) \cup with_one({}, E8)

\* ChessBoard::knight_moves of bitboard.rs on ChessBoard::new()
board_knight_moves(color, pos) ==
    knight_moves(pos)
        \cap (IF color = "Black" THEN BITS \ all_black ELSE BITS \ all_white)

\* the squares whose bits are set
bit_positions(bb) == {pos \in Positions : get_bit_index(pos) \in bb}

KnightMoves(pos) ==
    /\ bitboard_call = NoBitboardCall
    /\ bitboard_call' = [op |-> "Bitboard::knight_moves", pos |-> pos,
                         result |-> knight_moves(pos)]
    /\ UNCHANGED <<game, played, call, off_book, fen_in, fen_game, fen_out,
                   chess_board, board_call>>

BoardKnightMoves(color, pos) ==
    /\ bitboard_call = NoBitboardCall
    /\ bitboard_call' = [op |-> "ChessBoard::knight_moves", color |-> color,
                         pos |-> pos,
                         result |-> board_knight_moves(color, pos)]
    /\ UNCHANGED <<game, played, call, off_book, fen_in, fen_game, fen_out,
                   chess_board, board_call>>

NextBitboard ==
    \/ \E pos \in Positions : KnightMoves(pos)
    \/ \E color \in Colors, pos \in Positions : BoardKnightMoves(color, pos)

SpecBitboard == Init /\ [][NextBitboard]_vars

\* by the rules: the squares a knight's jump away from pos
knight_jumps(pos) ==
    {to \in Positions :
        {abs(file_of(to) - file_of(pos)), abs(rank_of(to) - rank_of(pos))}
            = {1, 2}}

\* C25: for each of the 64 squares Bitboard::knight_moves(sq) is exactly the
\* set of on-board squares at offsets (+-1, +-2) and (+-2, +-1) from sq, with
\* no wrap across the A and H files: {B3, C2} for A1 and
\* {B3, B5, C2, C6, E2, E6, F3, F5} for D4.
C25_KnightMask ==
    bitboard_call.op = "Bitboard::knight_moves" =>
        /\ bit_positions(bitboard_call.result) = knight_jumps(bitboard_call.pos)
        /\ bitboard_call.pos = A1
            => bit_positions(bitboard_call.result) = {sq("b", 3), sq("c", 2)}
        /\ bitboard_call.pos = sq("d", 4)
            => bit_positions(bitboard_call.result)
                = {sq("b", 3), sq("b", 5), sq("c", 2), sq("c", 6),
                   sq("e", 2), sq("e", 6), sq("f", 3), sq("f", 5)}

\* C26: a successful make_move from or to A8 that touches none of E1, A1, H1
\* leaves both of White's castling rights as they were.
C26_A8KeepsWhiteRights ==
    [][(/\ call'.result = "Ok"
        /\ A8 \in {move_from(call'.chess_move), move_to(call'.chess_move)}
        /\ {E1, A1, H1} \cap {move_from(call'.chess_move),
                              move_to(call'.chess_move)} = {})
       => /\ game'.move_manager.castling_rights.white_kingside
                = game.move_manager.castling_rights.white_kingside
          /\ game'.move_manager.castling_rights.white_queenside
                = game.move_manager.castling_rights.white_queenside]_vars

\* C27: in every game reachable from the initial position a held castling
\* right implies its king and its rook on their home squares: white_kingside
\* => White king on E1 and White rook on H1, white_queenside => E1 and A1,
\* black_kingside => Black king on E8 and Black rook on H8, black_queenside
\* => E8 and A8; and every Castle move of a legal set moves a rook of the
\* mover's colour.
C27_RightsImplyHomeSquares ==
    call.result # "Panic" =>
        /\ \A home \in {<<"white_kingside", "White", E1, H1>>,
                        <<"white_queenside", "White", E1, A1>>,
                        <<"black_kingside", "Black", E8, H8>>,
                        <<"black_queenside", "Black", E8, A8>>} :
                game.move_manager.castling_rights[home[1]]
                    => /\ get_piece(game.board, home[3])
                            = Some(Piece(home[2], "King"))
                       /\ get_piece(game.board, home[4])
                            = Some(Piece(home[2], "Rook"))
        /\ \A chess_move \in get_moves(game) :
                is_castle(chess_move)
                    => get_piece(game.board, chess_move.rook_from)
                            = Some(Piece(game.current_player, "Rook"))

\* by the rules: the pawns of the colour that attack target, which stand one
\* rank behind it (below for White, above for Black) on an adjacent file
pawn_attackers(board, target, color) ==
    {from \in get_bitboard(board, color, "Pawn") :
        /\ abs(file_of(from) - file_of(target)) = 1
        /\ rank_of(from) = rank_of(target) + (IF color = "White" THEN -1 ELSE 1)}

\* C28: for every target square the White pawns get_attackers counts are
\* exactly the White pawns on the two squares diagonally below the target,
\* and the Black pawns it counts exactly the Black pawns on the two squares
\* diagonally above; a pawn in front of, behind, or diagonally on the wrong
\* side of the target is never counted.
C28_PawnAttackers ==
    \A target \in Positions, color \in Colors :
        get_attackers(chess_board, target, color)
                \cap get_bitboard(chess_board, color, "Pawn")
            = pawn_attackers(chess_board, target, color)

\* a White pawn set on E4 attacks D5 and F5 and none of E5, D3, F3; a Black
\* pawn on A7 attacks B6 and not B8
C28_Witness ==
    /\ board_call.op = "set_piece"
    /\ ~board_call.panic
    /\ get_piece(chess_board, sq("e", 4)) = Some(Piece("White", "Pawn"))
    /\ get_attackers(chess_board, sq("d", 5), "White") = {sq("e", 4)}
    /\ get_attackers(chess_board, sq("f", 5), "White") = {sq("e", 4)}
    /\ get_attackers(chess_board, sq("e", 5), "White") = {}
    /\ sq("e", 4) \notin get_attackers(chess_board, sq("d", 3), "White")
    /\ sq("a", 7) \in get_attackers(chess_board, sq("b", 6), "Black")
    /\ sq("a", 7) \notin get_attackers(chess_board, sq("b", 8), "Black")

\* the colour that made the i-th move of a game from the initial position
mover_of(i) == IF i % 2 = 1 THEN "White" ELSE "Black"

\* C29: in a game played from the initial position, once a side has castled
\* no later legal set of that side contains a Castle move, even if its king
\* and a rook have returned to their home squares.
C29_CastleOnce ==
    call.result # "Panic" =>
        \A i \in 1 .. Len(played) :
            is_castle(played[i]) /\ mover_of(i) = game.current_player
                => \A chess_move \in get_moves(game) : ~is_castle(chess_move)

\* C30: in every game reachable from the initial position at most one of
\* white_en_passant_target and black_en_passant_target is set, and a set one
\* belongs to the side to move: white_en_passant_target only with White to
\* move, black_en_passant_target only with Black to move; so the target
\* fen_to_string writes, the white one or else the black one, is the set one.
C30_OneEnPassantTarget ==
    call.result # "Panic" =>
        /\ ~(is_some(game.move_manager.white_en_passant_target)
             /\ is_some(game.move_manager.black_en_passant_target))
        /\ is_some(game.move_manager.white_en_passant_target)
            => game.current_player = "White"
        /\ is_some(game.move_manager.black_en_passant_target)
            => game.current_player = "Black"

\* Black has answered a double push with a double push: only the target
\* White can use is set
C30_Witness ==
    /\ played = setup_game_1
    /\ game.move_manager.white_en_passant_target = Some(sq("d", 6))
    /\ game.move_manager.black_en_passant_target = None
    /\ game.current_player = "White"

=============================================================================
